---- MODULE Spec2Model ----
(***************************************************************************)
(* A model of reposync (zextras/reposync): the synchronization engine of   *)
(* src/src/sync.rs, the metadata store and its directory swap of           *)
(* src/src/state.rs, the Debian metadata reader of src/src/debian.rs, the  *)
(* destinations of src/src/destination.rs and the lock manager of          *)
(* src/src/locks.rs, the scheduler and status map of src/src/sync.rs, the  *)
(* control API of src/src/server.rs and the retry fetcher of               *)
(* src/src/fetcher.rs.                                                     *)
(*                                                                         *)
(* Nine specifications share the variables:                                *)
(*   Spec      one worker running sync_repo_internal on one repository,    *)
(*             step by step, against a changing upstream, a failing        *)
(*             destination and a failing file system;                      *)
(*   SpecSwap  syncs of one repository that each reach the swap, with the  *)
(*             steps of replace() and their failures;                      *)
(*   SpecLocks several threads calling sync_repo and load_current on       *)
(*             several repositories, with the two lock maps of Lock;       *)
(*   SpecWrite three threads calling load_current, which is lock_write;    *)
(*   SpecSched the scheduler thread, the clock and the control API over    *)
(*             the status map, a sync taken by its outcome;                *)
(*   SpecSchedFair the same with a clock that keeps going and a scheduler  *)
(*             thread that keeps running;                                  *)
(*   SpecFetch one call of RetryFetcher::fetch;                            *)
(*   SpecDiff  one call of repo_diff on a fetched and a current            *)
(*             repository;                                                 *)
(*   SpecIndex the metadata fetch of a Debian or a Red Hat repository file *)
(*             by file, with the optional signature indexes, over the live *)
(*             and the saved store.                                        *)
(***************************************************************************)
EXTENDS Integers, Sequences, FiniteSets, TLC

VARIABLES
    up,         \* the upstream repository: what the source endpoint serves
    publishes,  \* number of upstream changes so far
    faults,     \* failures injected by the environment so far
    destKind,   \* "local" (LocalDestination) or "s3" (S3Destination)
    dest,       \* the destination: path -> uploaded blob, or Absent
    target,     \* <data_path>/<name>     : the saved snapshot directory
    target_tmp, \* <data_path>/<name>_tmp : where replace() parks the old one
    live,       \* <data_path>/tmp_<name>/: the live metadata store directory
    st,         \* the worker inside sync_repo_internal (locals and position)
    log,        \* the destination and swap operations of the current sync
    prev,       \* "late-failure" when the last sync failed in a late phase
                \* with the snapshot not replaced and the upstream has not
                \* changed since, else "none"
    sync_locks, \* Lock.sync_locks: name -> "absent" | "true" | "false"
    wl_keys,    \* Lock.write_locks: the keys, in the order of the map's slots
    wl_locked,  \* Lock.write_locks: name -> whether that entry's mutex is held
    wl_map,     \* the thread holding the mutex around write_locks, or NoThread
    th,         \* SpecLocks: each thread's position and locals
    now,        \* SpecSched: time_provider.now(), in minutes since the epoch
    config,     \* SpecSched: general.min_sync_delay and general.max_sync_delay,
                \* and the time at which new_internal built the status map
    sync_map,   \* SpecSched: SyncManager.sync_map, name -> SyncStatus
    sched,      \* SpecSched: the scheduler thread (position and locals)
    api,        \* SpecSched: the control API request in progress or answered
    rf,         \* SpecFetch: one call of RetryFetcher::fetch
    df,         \* SpecDiff: one call of repo_diff (arguments and result)
    ix          \* SpecIndex: one call of fetch_repository_internal

pipeVars == <<up, publishes, faults, destKind, dest, st, log, prev>>
dirVars  == <<target, target_tmp, live>>
lockVarsButTh == <<sync_locks, wl_keys, wl_locked, wl_map>>
lockVars == <<lockVarsButTh, th>>
ctlVars  == <<now, config, sync_map, sched, api, rf, df, ix>>
vars     == <<pipeVars, dirVars, lockVars, ctlVars>>

\* The scheduler, the control API and the retry fetcher take no part in
\* Spec and SpecLocks.
CtlIdle ==
    /\ now = 0
    /\ config = <<>>
    /\ sync_map = <<>>
    /\ sched = <<>>
    /\ api = <<>>
    /\ rf = <<>>
    /\ df = <<>>
    /\ ix = <<>>

----------------------------------------------------------------------------
(* Bounds of the model. *)

MaxPublish == 1   \* upstream changes per behaviour
MaxFaults  == 1   \* failures the environment injects per behaviour
MaxVer     == 2   \* versions (payloads) a package path goes through

(* The configuration: RepositoryConfig.versions, and the package paths the *)
(* upstream may list (in the byte order of their names, which is the order *)
(* a BTreeMap<String, _> iterates in).  A path is a pair of strings: the   *)
(* directory and the file name.                                            *)
Versions == <<"focal", "bionic">>
PkgOrder == << <<"pool", "a.deb">>, <<"pool", "b.deb">> >>
Pkgs     == {PkgOrder[i] : i \in 1..Len(PkgOrder)}
Codenames == {Versions[i] : i \in 1..Len(Versions)}

----------------------------------------------------------------------------
(* Sequence helpers. *)

Range(s) == {s[i] : i \in 1..Len(s)}

RECURSIVE Concat(_)
Concat(ss) == IF ss = <<>> THEN <<>> ELSE Head(ss) \o Concat(Tail(ss))

\* The elements of set S in the order of sequence ord.
InOrder(ord, S) == SelectSeq(ord, LAMBDA x : x \in S)

Sum(f, S) == LET RECURSIVE go(_)
                 go(T) == IF T = {} THEN 0
                          ELSE LET x == CHOOSE y \in T : TRUE
                               IN  f[x] + go(T \ {x})
             IN  go(S)

RECURSIVE Pow(_, _)
Pow(b, e) == IF e = 0 THEN 1 ELSE b * Pow(b, e - 1)

PkgRank(p) == CHOOSE i \in 1..Len(PkgOrder) : PkgOrder[i] = p

----------------------------------------------------------------------------
(* Files.  A file is its bytes, abstracted to a fingerprint (sha: equal    *)
(* for equal bytes, as SHA-256 is in practice), a byte length (size), and   *)
(* what a parser reads out of it (the packages of a Packages file, the     *)
(* SHA256 block of a Release file).                                        *)

FileNames == {"Release", "Packages"}
FileKeys  == Codenames \X FileNames

NoFile == [present |-> FALSE, sha |-> 0, size |-> 0, pkgs |-> {},
           listed |-> <<>>, fault |-> "none"]

NoDir  == [exists |-> FALSE, files |-> [key \in FileKeys |-> NoFile]]

\* packages.rs: Package.  name, version and architecture are folded into
\* hash: two upstream packages at one path differ in their payload.
Package(p, v) == [path |-> p, hash |-> [kind |-> "sha256", hex |-> v], size |-> v]

\* The fingerprint of a Packages file listing `pkgs` (injective in pkgs).
ListingSha(pkgs) ==
    2 * Sum([x \in pkgs |-> x.hash.hex * Pow(MaxVer + 1, PkgRank(x.path) - 1)], pkgs)

\* The Packages file upstream serves for codename k.  fault "hash": bytes
\* that differ from what Release declares, at the declared length; fault
\* "size": bytes of another length.
PackagesFile(u, k, fault) ==
    LET pkgs == {Package(p, u.ver[p]) : p \in u.pk[k]}
    IN  [present |-> TRUE,
         sha     |-> ListingSha(pkgs) + (IF fault = "none" THEN 0 ELSE 1),
         size    |-> 5 * Cardinality(pkgs) + (IF fault = "size" THEN 1 ELSE 0),
         pkgs    |-> pkgs, listed |-> <<>>, fault |-> fault]

Digits(n) == IF n < 10 THEN 1 ELSE 2

\* The Release file upstream serves for codename k: its SHA256 block names
\* the Packages file with its hash and length.  Its own length changes
\* only with the number of digits of the lengths it lists.  fault "parse":
\* a file parse_release rejects.
ReleaseFile(u, k, fault) ==
    LET good == PackagesFile(u, k, "none")
    IN  [present |-> TRUE,
         sha     |-> 3 * good.sha + (IF fault = "none" THEN 1 ELSE 2),
         size    |-> 20 + Digits(good.size),
         pkgs    |-> {},
         listed  |-> <<[name |-> "Packages", size |-> good.size, hex |-> good.sha]>>,
         fault   |-> fault]

----------------------------------------------------------------------------
(* packages.rs: Hash, IndexFile, Collection, Repository.                   *)

HashNone == [kind |-> "none", hex |-> 0]

\* Hash::matches: the digest of the bytes read, compared with the stored one.
HashMatches(hash, file) ==
    IF hash.kind = "none" THEN TRUE ELSE hash.hex = file.sha

\* A variant of same_content that finds no two indexes alike.
same_content_never(a, b) == FALSE

\* IndexFile::same_content
same_content(a, b) == a.path = b.path /\ a.size = b.size /\ a.hash = b.hash

\* Collection::empty
EmptyCollection(tgt) == [target |-> tgt, indexes |-> <<>>, packages |-> <<>>]

----------------------------------------------------------------------------
(* debian.rs: fetch_repository_internal, reading one codename out of a     *)
(* metadata store directory.  For the live store the files were written    *)
(* into the directory by LiveRepoMetadataStore::fetch just before they are *)
(* read (FetchCodename below); for the saved store they are the files of   *)
(* the saved snapshot.  The Architectures line of Release is taken to be   *)
(* constant, so a Target is its release_name.                              *)

\* The IndexFile of the top-level Release: size as fetched, no hash.
ReleaseIndex(k, rel) ==
    [path |-> <<k, "Release">>, size |-> rel.size, hash |-> HashNone,
     signature |-> "None"]

\* parse_release: one IndexFile per entry of the SHA256 block.
ListedIndex(k, e) ==
    [path |-> <<k, e.name>>, size |-> e.size,
     hash |-> [kind |-> "sha256", hex |-> e.hex], signature |-> "None"]

\* parse_packages of the file at <<k, "Packages">>, in the file's order.
ParsedPackages(file) ==
    LET paths == {x.path : x \in file.pkgs}
        at(p) == CHOOSE x \in file.pkgs : x.path = p
        ord   == InOrder(PkgOrder, paths)
    IN  [i \in 1..Len(ord) |-> at(ord[i])]

\* One pass of the loop body for codename k: "ok" with the Collection,
\* "skip" (continue), or the kind of the error returned.
ReadCollection(dir, k, allow_empty) ==
    LET rel      == dir.files[<<k, "Release">>]
        file(e)  == dir.files[<<k, e.name>>]
        entries  == Range(rel.listed)
        none     == EmptyCollection(k)
    IN  IF ~dir.exists \/ ~rel.present
        THEN [status |-> IF allow_empty THEN "skip" ELSE "not-found", col |-> none]
        ELSE IF rel.fault = "parse"
        THEN [status |-> "invalid-data", col |-> none]
        ELSE IF \E e \in entries : ~file(e).present
        THEN [status |-> "not-found", col |-> none]
        ELSE IF \E e \in entries : e.size # file(e).size
        THEN [status |-> "invalid-data", col |-> none]
        ELSE [status |-> "ok",
              col |-> [target   |-> k,
                       indexes  |-> <<ReleaseIndex(k, rel)>> \o
                                    [i \in 1..Len(rel.listed) |-> ListedIndex(k, rel.listed[i])],
                       packages |-> ParsedPackages(dir.files[<<k, "Packages">>])]]

\* fetch_repository_internal(state, config, allow_empty) over codenames
\* Versions[j..]: the Repository, or the first error.
RECURSIVE ReadFrom(_, _, _)
ReadFrom(dir, j, allow_empty) ==
    IF j > Len(Versions) THEN [status |-> "ok", collections |-> <<>>]
    ELSE LET r    == ReadCollection(dir, Versions[j], allow_empty)
             rest == ReadFrom(dir, j + 1, allow_empty)
         IN  IF r.status \notin {"ok", "skip"}
             THEN [status |-> r.status, collections |-> <<>>]
             ELSE IF rest.status # "ok" THEN rest
             ELSE [status |-> "ok",
                   collections |-> (IF r.status = "ok" THEN <<r.col>> ELSE <<>>)
                                   \o rest.collections]

\* debian::load_repository: the saved store, allow_empty = true.
load_repository(dir) == ReadFrom(dir, 1, TRUE)

\* A variant that reports a missing saved directory as an error.
load_current_failing(dir) ==
    IF ~dir.exists THEN [status |-> "not-found", collections |-> <<>>]
    ELSE load_repository(dir)

\* SyncManager::load_current: an empty Repository when the saved directory
\* cannot be opened, else the Repository read from it (or the error).
load_current(dir) ==
    IF ~dir.exists THEN [status |-> "ok", collections |-> <<>>]
    ELSE load_repository(dir)

----------------------------------------------------------------------------
(* sync.rs: SyncManager::repo_diff and deduplicate_list.                   *)

\* current_repo.collections.iter().find(|x| x.target == collection.target)
\*     .unwrap_or(&empty_collection)
CurrentCollection(current_repo, tgt) ==
    LET cs   == current_repo.collections
        hits == {i \in 1..Len(cs) : cs[i].target = tgt}
    IN  IF hits = {} THEN EmptyCollection(tgt)
        ELSE cs[CHOOSE i \in hits : \A h \in hits : i <= h]

PathsOf(items) == {items[i].path : i \in 1..Len(items)}

\* The value a BTreeMap collected from (path, item) pairs holds at `p`:
\* the last item with that path.
AtPath(items, p) ==
    items[CHOOSE i \in 1..Len(items) :
             /\ items[i].path = p
             /\ \A h \in 1..Len(items) : items[h].path = p => h <= i]

CopyOperation(item, is_replace, local_file) ==
    [is_replace |-> is_replace, path |-> item.path, hash |-> item.hash,
     size |-> item.size, local_file |-> local_file]

DeleteOperation(p) == [path |-> p]

\* A variant of the package copy list that takes every copy for a new
\* path.
PackagesCopy_all_new(col, cur) ==
    LET newp == PathsOf(col.packages)
        curp == PathsOf(cur.packages)
        keys == InOrder(PkgOrder,
                    {p \in newp : IF p \in curp
                                  THEN AtPath(cur.packages, p) # AtPath(col.packages, p)
                                  ELSE TRUE})
    IN  [i \in 1..Len(keys) |->
            CopyOperation(AtPath(col.packages, keys[i]), FALSE, FALSE)]

\* packages_copy_list of one collection: new_packages in key order, those
\* absent from current_packages or different from the current one.
PackagesCopy(col, cur) ==
    LET newp == PathsOf(col.packages)
        curp == PathsOf(cur.packages)
        keys == InOrder(PkgOrder,
                    {p \in newp : IF p \in curp
                                  THEN AtPath(cur.packages, p) # AtPath(col.packages, p)
                                  ELSE TRUE})
    IN  [i \in 1..Len(keys) |->
            CopyOperation(AtPath(col.packages, keys[i]), keys[i] \in curp, FALSE)]

\* packages_delete_list of one collection: current_packages in key order,
\* those whose path is not a key of new_packages.
PackagesDelete(col, cur) ==
    LET keys == InOrder(PkgOrder, PathsOf(cur.packages) \ PathsOf(col.packages))
    IN  [i \in 1..Len(keys) |-> DeleteOperation(keys[i])]

\* index_copy_list of one collection: collection.indexes in Vec order,
\* skipping those with the same content as the current index at that path.
IndexesCopy(col, cur) ==
    LET curp    == PathsOf(cur.indexes)
        keep(x) == IF x.path \in curp
                   THEN ~same_content(x, AtPath(cur.indexes, x.path))
                   ELSE TRUE
        kept    == SelectSeq(col.indexes, keep)
    IN  [i \in 1..Len(kept) |-> CopyOperation(kept[i], kept[i].path \in curp, TRUE)]

\* A variant of the index delete list that holds every current index.
IndexesDelete_all_current(col, cur) ==
    [i \in 1..Len(cur.indexes) |-> DeleteOperation(cur.indexes[i].path)]

\* index_delete_list of one collection: current indexes whose path is not
\* among the new ones.
IndexesDelete(col, cur) ==
    LET newp == PathsOf(col.indexes)
        gone == SelectSeq(cur.indexes, LAMBDA x : x.path \notin newp)
    IN  [i \in 1..Len(gone) |-> DeleteOperation(gone[i].path)]

\* deduplicate_list: the first occurrence of each element, in order.
RECURSIVE deduplicate_from(_, _)
deduplicate_from(tmp, list) ==
    IF list = <<>> THEN tmp
    ELSE deduplicate_from(IF Head(list) \in Range(tmp) THEN tmp
                          ELSE Append(tmp, Head(list)), Tail(list))

deduplicate_list(list) == deduplicate_from(<<>>, list)

\* repo_diff(repo, current_repo): the four lists, each the concatenation
\* over repo.collections of the per-collection list, deduplicated.
repo_diff(repo, current_repo) ==
    LET cs      == repo.collections
        cur(i)  == CurrentCollection(current_repo, cs[i].target)
        over(F(_, _)) == Concat([i \in 1..Len(cs) |-> F(cs[i], cur(i))])
    IN  [packages_copy   |-> deduplicate_list(over(PackagesCopy)),
         packages_delete |-> deduplicate_list(over(PackagesDelete)),
         index_copy      |-> deduplicate_list(over(IndexesCopy)),
         index_delete    |-> deduplicate_list(over(IndexesDelete))]

----------------------------------------------------------------------------
(* destination.rs: the Destination contract over the objects held at the   *)
(* destination.  An object is the fingerprint of the bytes uploaded.       *)

DestPaths == Pkgs \cup FileKeys
NoObject  == [present |-> FALSE, sha |-> 0]
EmptyDestination == [p \in DestPaths |-> NoObject]

\* Destination::upload, when it succeeds: the object at `path` is replaced.
upload(d, path, sha) == [d EXCEPT ![path] = [present |-> TRUE, sha |-> sha]]

\* Whether Destination::delete of `path` returns Ok when the destination
\* itself is healthy.  LocalDestination: std::fs::remove_file, an error
\* for a missing file.  S3Destination: delete_object, Ok for a missing key.
delete_ok(kind, d, path) == IF kind = "local" THEN d[path].present ELSE TRUE

\* Destination::delete, when it succeeds.
delete(d, path) == [d EXCEPT ![path] = NoObject]

\* Whether Destination::invalidate can fail: LocalDestination returns
\* Ok(()) unconditionally, S3Destination calls CloudFront when paths exist.
invalidate_can_fail(kind, paths) == kind = "s3" /\ paths # <<>>

----------------------------------------------------------------------------
(* state.rs: the directories of LiveRepoMetadataStore::replace.            *)

Repos     == {"a", "b"}
RepoOrder == <<"a", "b">>

IsEmptyDir(d) == d.exists /\ \A key \in FileKeys : ~d.files[key].present

\* std::fs::rename(src, dst) of directories succeeds when src exists and
\* dst does not exist or is an empty directory.
rename_ok(src, dst) == src.exists /\ (~dst.exists \/ IsEmptyDir(dst))

\* let existed = File::open(path).is_ok();
existed(r) == target[r].exists

\* if existed { std::fs::rename(&path, tmp_dir)?; }
replace_step1_ok(r) == existed(r) => rename_ok(target[r], target_tmp[r])
replace_step1(r) ==
    /\ target' = IF existed(r) THEN [target EXCEPT ![r] = NoDir] ELSE target
    /\ target_tmp' = IF existed(r) THEN [target_tmp EXCEPT ![r] = target[r]]
                      ELSE target_tmp
    /\ live' = live

\* std::fs::rename(&self.directory, path)?;
replace_step2_ok(r) == rename_ok(live[r], target[r])
replace_step2(r) ==
    /\ target' = [target EXCEPT ![r] = live[r]]
    /\ live' = [live EXCEPT ![r] = NoDir]
    /\ target_tmp' = target_tmp

\* if existed { std::fs::remove_dir_all(tmp_dir)?; }
replace_step3_ok(r, was) == was => target_tmp[r].exists
replace_step3(r, was) ==
    /\ target_tmp' = IF was THEN [target_tmp EXCEPT ![r] = NoDir] ELSE target_tmp
    /\ UNCHANGED <<target, live>>

----------------------------------------------------------------------------
(* locks.rs: Lock.                                                         *)

NoThread == 0

\* A variant that takes the flag whatever its value.
compare_exchange_always(v) == TRUE

\* atomic.compare_exchange(false, true, ..).is_ok() on an entry's value.
compare_exchange_ok(v) == v = "false"

\* Lock::try_lock on sync_locks: whether a LockHolder is returned.  A
\* missing entry is inserted already set.
try_lock_some(r) ==
    IF sync_locks[r] = "absent" THEN TRUE ELSE compare_exchange_ok(sync_locks[r])

\* A variant in which a refused try_lock leaves the flag cleared, as if
\* a LockHolder of the refused call were dropped.
try_lock_map_clearing(r) ==
    IF try_lock_some(r) THEN [sync_locks EXCEPT ![r] = "true"]
    ELSE [sync_locks EXCEPT ![r] = "false"]

\* The map after try_lock.
try_lock_map(r) ==
    IF try_lock_some(r) THEN [sync_locks EXCEPT ![r] = "true"] ELSE sync_locks

\* A variant of the drop that leaves the flag set.
holder_drop_never(r) == sync_locks

\* LockHolder::drop
holder_drop(r) == [sync_locks EXCEPT ![r] = "false"]

\* Lock::is_repo_syncing: the value of the entry's flag, and true when the
\* map has no entry for the repository.
is_repo_syncing(r) ==
    IF sync_locks[r] = "absent" THEN TRUE ELSE sync_locks[r] = "true"

\* SyncManager::_repo_status: the `current` field of the reported status.
repo_status_current(r) == IF is_repo_syncing(r) THEN "syncing" ELSE "waiting"

\* Lock::lock, map.insert(repo_name, new_mutex): the keys of the BTreeMap
\* in slot order.  Keys and values of a node are stored in arrays kept in
\* key order, so an insert moves every entry with a larger key one slot up.
map_insert(keys, r) ==
    IF r \in Range(keys) THEN keys
    ELSE InOrder(RepoOrder, Range(keys) \cup {r})

SlotOf(keys, r) == CHOOSE i \in 1..Len(keys) : keys[i] = r

\* Dropping the MutexGuard that Lock::lock transmuted to an unbounded
\* lifetime.  The guard holds the address of the slot its Mutex was in when
\* it was locked; the Mutex unlocked is the one there now.  When an insert
\* moved the entries meanwhile, that reference dangles: the mutexes the
\* drop may unlock are the guard's own and the slot's present occupant.
guard_drop_targets(keys, r, slot) ==
    IF keys[slot] = r THEN {r} ELSE {r, keys[slot]}

----------------------------------------------------------------------------
(* Spec: one worker running SyncManager::sync_repo on repository TheRepo.  *)

TheRepo == "a"

\* A variant order in which the deletes run right after the uploads and
\* the invalidation comes last before the swap.
PhaseAfter_deletes_first(ph) ==
    CASE ph = "copy_packages"   -> "copy_indexes"
      [] ph = "copy_indexes"    -> "delete_packages"
      [] ph = "delete_packages" -> "delete_indexes"
      [] ph = "delete_indexes"  -> "invalidate"
      [] ph = "invalidate"      -> "swap"

\* The order of the phases of sync_repo_internal after the diff.
PhaseAfter(ph) ==
    CASE ph = "copy_packages"   -> "copy_indexes"
      [] ph = "copy_indexes"    -> "invalidate"
      [] ph = "invalidate"      -> "delete_packages"
      [] ph = "delete_packages" -> "delete_indexes"
      [] ph = "delete_indexes"  -> "swap"

NoPlan == [packages_copy |-> <<>>, packages_delete |-> <<>>,
           index_copy |-> <<>>, index_delete |-> <<>>]

IdleSt == [pc |-> "idle", j |-> 1, collections |-> <<>>, plan |-> NoPlan,
           i |-> 1, invalidation_paths |-> <<>>, was |-> FALSE,
           result |-> "none", phase |-> "none", fault |-> FALSE,
           saved0 |-> NoDir]

\* The phases of sync_repo_internal that change the destination or the
\* snapshot.
LatePhases == {"copy_packages", "copy_indexes", "invalidate",
               "delete_packages", "delete_indexes", "swap"}

Event(op, kind, path, paths) ==
    [op |-> op, kind |-> kind, path |-> path, paths |-> paths]

NoPath == <<"", "">>

\* A variant without the early return: the error is noted and the loop
\* goes on with the next operation.
on_error_continue(kind, fault) ==
    [st EXCEPT !.i = @ + 1, !.result = kind, !.phase = st.pc,
               !.fault = st.fault \/ fault]

\* A variant in which an error skips the remaining phases but not the
\* swap of the snapshot.
on_error_then_swap(kind, fault) ==
    [st EXCEPT !.pc = "swap", !.result = kind, !.phase = st.pc,
               !.fault = st.fault \/ fault]

\* The `?` of sync_repo_internal: the first error ends the sync.  `fault`
\* tells an error injected by the environment (upstream, network,
\* destination, file system) from one the code derives from its state.
on_error(kind, fault) ==
    [st EXCEPT !.pc = "done", !.result = kind, !.phase = st.pc,
               !.fault = st.fault \/ fault]

Fail(kind, fault) == st' = on_error(kind, fault)

\* The snapshot directory and the destination a successful sync of
\* upstream u leaves behind.
SnapshotDir(u) ==
    [exists |-> TRUE,
     files  |-> [key \in FileKeys |->
                    IF key[2] = "Release" THEN ReleaseFile(u, key[1], "none")
                    ELSE PackagesFile(u, key[1], "none")]]

MirrorOf(u) ==
    [p \in DestPaths |->
        IF p \in Pkgs
        THEN IF \E k \in Codenames : p \in u.pk[k]
             THEN [present |-> TRUE, sha |-> u.ver[p]] ELSE NoObject
        ELSE [present |-> TRUE, sha |-> SnapshotDir(u).files[p].sha]]

InitialUpstreams ==
    [pk : [Codenames -> {{}, {PkgOrder[1]}}], ver : [Pkgs -> {1}]]

LocksInit ==
    /\ sync_locks = [r \in Repos |-> "absent"]
    /\ wl_keys = <<>>
    /\ wl_locked = [r \in Repos |-> FALSE]
    /\ wl_map = NoThread

\* Either nothing was ever synced, or the state a successful sync of the
\* initial upstream left (see MirrorReached).
Init ==
    /\ up \in InitialUpstreams
    /\ publishes = 0
    /\ faults = 0
    /\ destKind \in {"local", "s3"}
    /\ \E mirrored \in BOOLEAN :
          /\ dest = IF mirrored THEN MirrorOf(up) ELSE EmptyDestination
          /\ target = [r \in Repos |-> IF mirrored /\ r = TheRepo
                                        THEN SnapshotDir(up) ELSE NoDir]
    /\ target_tmp = [r \in Repos |-> NoDir]
    /\ live = [r \in Repos |-> NoDir]
    /\ st = IdleSt
    /\ log = <<>>
    /\ prev = "none"
    /\ LocksInit
    /\ th = <<>>
    /\ CtlIdle

\* An operation of the environment fails only while the behaviour has
\* failures left.
MayFail(fails) == fails => faults < MaxFaults
Count(fails)   == faults' = IF fails THEN faults + 1 ELSE faults

\* The upstream publisher adds a package to, or drops one from, a codename.
PublishToggle ==
    /\ st.pc = "idle"
    /\ publishes < MaxPublish
    /\ \E k \in Codenames, p \in Pkgs :
          up' = [up EXCEPT !.pk[k] = IF p \in @ THEN @ \ {p} ELSE @ \cup {p}]
    /\ publishes' = publishes + 1
    /\ prev' = "none"
    /\ UNCHANGED <<faults, destKind, dest, st, log, dirVars, lockVars>>
    /\ UNCHANGED ctlVars

\* The upstream publisher replaces the payload at a package path.
PublishVersion ==
    /\ st.pc = "idle"
    /\ publishes < MaxPublish
    /\ \E p \in Pkgs :
          /\ up.ver[p] < MaxVer
          /\ up' = [up EXCEPT !.ver[p] = @ + 1]
    /\ publishes' = publishes + 1
    /\ prev' = "none"
    /\ UNCHANGED <<faults, destKind, dest, st, log, dirVars, lockVars>>
    /\ UNCHANGED ctlVars

\* sync_repo up to the call of sync_repo_internal: the sync lock is taken.
\* With one worker the LockHolder is always obtained.
StartSync ==
    /\ st.pc = "idle"
    /\ try_lock_some(TheRepo)
    /\ sync_locks' = try_lock_map(TheRepo)
    /\ st' = [IdleSt EXCEPT !.pc = "fetch", !.saved0 = target[TheRepo]]
    /\ UNCHANGED <<up, publishes, faults, destKind, dest, log, prev, dirVars,
                   wl_keys, wl_locked, wl_map, th>>
    /\ UNCHANGED ctlVars

\* What the fetches of one codename leave in the live directory.
\* LiveRepoMetadataStore::fetch creates the directory, then writes a file
\* only when the download succeeded.
FetchOutcomes == {"ok", "release-404", "release-error", "release-parse",
                  "index-error", "index-size", "index-hash"}

fetched_files(dir, k, outcome) ==
    LET rel == IF outcome \in {"release-404", "release-error"}
               THEN dir.files[<<k, "Release">>]
               ELSE ReleaseFile(up, k, IF outcome = "release-parse"
                                       THEN "parse" ELSE "none")
        idx == IF outcome \in {"ok", "index-size", "index-hash"}
               THEN PackagesFile(up, k, CASE outcome = "index-size" -> "size"
                                          [] outcome = "index-hash" -> "hash"
                                          [] OTHER -> "none")
               ELSE dir.files[<<k, "Packages">>]
    IN  [exists |-> TRUE,
         files  |-> [dir.files EXCEPT ![<<k, "Release">>] = rel,
                                      ![<<k, "Packages">>] = idx]]

\* debian::fetch_repository, one codename per step: the loop body of
\* fetch_repository_internal over the live store, allow_empty = false.
FetchCodename ==
    /\ st.pc = "fetch"
    /\ \E outcome \in FetchOutcomes :
          LET k      == Versions[st.j]
              dir    == fetched_files(live[TheRepo], k, outcome)
              r      == ReadCollection(dir, k, FALSE)
              status == CASE outcome = "release-404" -> "not-found"
                          [] outcome \in {"release-error", "index-error"} -> "other"
                          [] OTHER -> r.status
          IN  /\ MayFail(outcome # "ok")
              /\ outcome = "index-hash" => up.pk[k] # {}
              /\ Count(outcome # "ok")
              /\ live' = [live EXCEPT ![TheRepo] = dir]
              /\ IF status = "ok"
                 THEN st' = [st EXCEPT
                               !.collections = Append(@, r.col),
                               !.j = @ + 1,
                               !.fault = @ \/ outcome # "ok",
                               !.pc = IF st.j = Len(Versions) THEN "plan" ELSE "fetch"]
                 ELSE Fail(status, TRUE)
    /\ UNCHANGED <<up, publishes, destKind, dest, log, prev,
                   target, target_tmp, lockVars>>
    /\ UNCHANGED ctlVars

\* The signature check of every fetched index against the configured
\* public key.  No index of this upstream carries a signature.
signatures_ok(collections) ==
    \A c \in 1..Len(collections) :
        \A x \in 1..Len(collections[c].indexes) :
            collections[c].indexes[x].signature = "None"

\* sync_repo_internal from the signature check to the early return:
\* load_current under the write lock (taken and released within the
\* step), repo_diff, and Ok(()) when there is nothing to copy.
\* A variant that never takes the early return.
nothing_to_copy_ignored(plan) == FALSE

\* packages_copy_list.is_empty() && index_copy_list.is_empty()
nothing_to_copy(plan) == plan.packages_copy = <<>> /\ plan.index_copy = <<>>

Plan ==
    /\ st.pc = "plan"
    /\ wl_map = NoThread /\ ~wl_locked[TheRepo]
    /\ wl_keys' = IF signatures_ok(st.collections)
                   THEN map_insert(wl_keys, TheRepo) ELSE wl_keys
    /\ LET current == load_current(target[TheRepo])
           plan    == repo_diff([collections |-> st.collections], current)
       IN  IF ~signatures_ok(st.collections) THEN Fail("invalid-data", TRUE)
           ELSE IF current.status # "ok" THEN Fail(current.status, FALSE)
           ELSE IF nothing_to_copy(plan)
           THEN st' = [st EXCEPT !.pc = "done", !.result = "ok", !.phase = "plan"]
           ELSE st' = [st EXCEPT !.pc = "copy_packages", !.plan = plan, !.i = 1]
    /\ UNCHANGED <<up, publishes, faults, destKind, dest, log, prev, dirVars,
                   sync_locks, wl_locked, wl_map, th>>
    /\ UNCHANGED ctlVars

\* A variant that invalidates the path of every copy.
invalidation_after_always(paths, op) == Append(paths, op.path)

\* if operation.is_replace { invalidation_paths.push(operation.path) }
invalidation_after(paths, op) ==
    IF op.is_replace THEN Append(paths, op.path) ELSE paths

\* copy_internal for one operation of packages_copy_list (local_file is
\* None): fetch the payload, check hash and size, upload.
PackageOutcomes == {"ok", "fetch-error", "bad-hash", "bad-size", "upload-error"}

CopyPackage ==
    /\ st.pc = "copy_packages"
    /\ IF st.i > Len(st.plan.packages_copy)
       THEN /\ st' = [st EXCEPT !.pc = PhaseAfter(st.pc), !.i = 1]
            /\ UNCHANGED <<dest, log, faults>>
       ELSE \E outcome \in PackageOutcomes :
              LET op   == st.plan.packages_copy[st.i]
                  file == [sha  |-> IF outcome = "bad-hash" THEN 0 ELSE op.hash.hex,
                           size |-> IF outcome = "bad-size" THEN op.size + 1
                                    ELSE op.size]
              IN  /\ MayFail(outcome # "ok")
                  /\ Count(outcome # "ok")
                  /\ IF outcome = "fetch-error"
                     THEN Fail("other", TRUE) /\ UNCHANGED <<dest, log>>
                     ELSE IF ~HashMatches(op.hash, file) \/ op.size # file.size
                     THEN Fail("invalid-data", TRUE) /\ UNCHANGED <<dest, log>>
                     ELSE IF outcome = "upload-error"
                     THEN Fail("other", TRUE) /\ UNCHANGED <<dest, log>>
                     ELSE /\ dest' = upload(dest, op.path, file.sha)
                          /\ log' = Append(log, Event("upload", "package", op.path, {}))
                          /\ st' = [st EXCEPT
                                 !.i = @ + 1,
                                 !.invalidation_paths = invalidation_after(@, op)]
    /\ UNCHANGED <<up, publishes, destKind, prev, dirVars, lockVars>>
    /\ UNCHANGED ctlVars

\* copy_internal for one operation of index_copy_list (local_file is the
\* file in the live directory): check hash and size, upload.
CopyIndex ==
    /\ st.pc = "copy_indexes"
    /\ IF st.i > Len(st.plan.index_copy)
       THEN /\ st' = [st EXCEPT !.pc = PhaseAfter(st.pc), !.i = 1]
            /\ UNCHANGED <<dest, log, faults>>
       ELSE \E fails \in BOOLEAN :
              LET op   == st.plan.index_copy[st.i]
                  file == live[TheRepo].files[op.path]
                  bad  == ~HashMatches(op.hash, file) \/ op.size # file.size
              IN  /\ MayFail(fails)
                  /\ fails => ~bad
                  /\ Count(fails)
                  /\ IF bad
                     THEN Fail("invalid-data", FALSE) /\ UNCHANGED <<dest, log>>
                     ELSE IF fails
                     THEN Fail("other", TRUE) /\ UNCHANGED <<dest, log>>
                     ELSE /\ dest' = upload(dest, op.path, file.sha)
                          /\ log' = Append(log, Event("upload", "index", op.path, {}))
                          /\ st' = [st EXCEPT
                                 !.i = @ + 1,
                                 !.invalidation_paths = invalidation_after(@, op)]
    /\ UNCHANGED <<up, publishes, destKind, prev, dirVars, lockVars>>
    /\ UNCHANGED ctlVars

\* destination.invalidate(invalidation_paths)?
Invalidate ==
    /\ st.pc = "invalidate"
    /\ \E fails \in BOOLEAN :
          /\ MayFail(fails)
          /\ fails => invalidate_can_fail(destKind, st.invalidation_paths)
          /\ Count(fails)
          /\ IF fails
             THEN Fail("other", TRUE) /\ UNCHANGED log
             ELSE /\ log' = Append(log, Event("invalidate", "", NoPath,
                                              Range(st.invalidation_paths)))
                  /\ st' = [st EXCEPT !.pc = PhaseAfter(st.pc), !.i = 1]
    /\ UNCHANGED <<up, publishes, destKind, dest, prev, dirVars, lockVars>>
    /\ UNCHANGED ctlVars

\* destination.delete(&operation.path)? for one operation of `list`.
DeleteStep(list, kind) ==
    IF st.i > Len(list)
    THEN /\ st' = [st EXCEPT !.pc = PhaseAfter(st.pc), !.i = 1]
         /\ UNCHANGED <<dest, log, faults>>
    ELSE \E fails \in BOOLEAN :
           LET op == list[st.i]
           IN  /\ MayFail(fails)
               /\ Count(fails)
               /\ IF fails
                  THEN Fail("other", TRUE) /\ UNCHANGED <<dest, log>>
                  ELSE IF ~delete_ok(destKind, dest, op.path)
                  THEN Fail("not-found", FALSE) /\ UNCHANGED <<dest, log>>
                  ELSE /\ dest' = delete(dest, op.path)
                       /\ log' = Append(log, Event("delete", kind, op.path, {}))
                       /\ st' = [st EXCEPT !.i = @ + 1]

\* for operation in packages_delete_list { destination.delete(..)?; }
DeletePackage ==
    /\ st.pc = "delete_packages"
    /\ DeleteStep(st.plan.packages_delete, "package")
    /\ UNCHANGED <<up, publishes, destKind, prev, dirVars, lockVars>>
    /\ UNCHANGED ctlVars

\* for operation in index_delete_list { destination.delete(..)?; }
DeleteIndex ==
    /\ st.pc = "delete_indexes"
    /\ DeleteStep(st.plan.index_delete, "index")
    /\ UNCHANGED <<up, publishes, destKind, prev, dirVars, lockVars>>
    /\ UNCHANGED ctlVars

\* let _write_lock = self.lock.lock_write(..); then replace(), first step.
SwapLockAndStep1 ==
    /\ st.pc = "swap"
    /\ wl_map = NoThread /\ ~wl_locked[TheRepo]
    /\ wl_keys' = map_insert(wl_keys, TheRepo)
    /\ wl_locked' = [wl_locked EXCEPT ![TheRepo] = TRUE]
    /\ \E fails \in BOOLEAN :
          /\ MayFail(fails)
          /\ Count(fails)
          /\ IF fails \/ ~replace_step1_ok(TheRepo)
             THEN Fail("other", fails) /\ UNCHANGED dirVars
             ELSE /\ replace_step1(TheRepo)
                  /\ st' = [st EXCEPT !.pc = "replace2", !.was = existed(TheRepo)]
    /\ UNCHANGED <<up, publishes, destKind, dest, log, prev,
                   sync_locks, wl_map, th>>
    /\ UNCHANGED ctlVars

\* replace(), second step: the live directory becomes the snapshot.
SwapStep2 ==
    /\ st.pc = "replace2"
    /\ \E fails \in BOOLEAN :
          /\ MayFail(fails)
          /\ Count(fails)
          /\ IF fails \/ ~replace_step2_ok(TheRepo)
             THEN /\ st' = [on_error("other", fails) EXCEPT !.phase = "swap"]
                  /\ UNCHANGED dirVars
             ELSE /\ replace_step2(TheRepo)
                  /\ st' = [st EXCEPT !.pc = "replace3"]
    /\ UNCHANGED <<up, publishes, destKind, dest, log, prev, lockVars>>
    /\ UNCHANGED ctlVars

\* replace(), third step: the set-aside snapshot is removed.
SwapStep3 ==
    /\ st.pc = "replace3"
    /\ \E fails \in BOOLEAN :
          /\ MayFail(fails)
          /\ fails => st.was
          /\ Count(fails)
          /\ IF fails \/ ~replace_step3_ok(TheRepo, st.was)
             THEN /\ st' = [on_error("other", fails) EXCEPT !.phase = "swap"]
                  /\ UNCHANGED <<dirVars, log>>
             ELSE /\ replace_step3(TheRepo, st.was)
                  /\ log' = Append(log, Event("swap", "", NoPath, {}))
                  /\ st' = [st EXCEPT !.pc = "done", !.result = "ok", !.phase = "swap"]
    /\ UNCHANGED <<up, publishes, destKind, dest, prev, lockVars>>
    /\ UNCHANGED ctlVars

\* sync_repo_internal returns: the write guard of the swap and the
\* LockHolder of sync_repo are dropped.
Return ==
    /\ st.pc = "done"
    /\ prev' = IF /\ st.result # "ok"
                  /\ st.phase \in LatePhases
                  /\ target[TheRepo] = st.saved0
               THEN "late-failure" ELSE "none"
    /\ st' = IdleSt
    /\ log' = <<>>
    /\ sync_locks' = holder_drop(TheRepo)
    /\ wl_locked' = [wl_locked EXCEPT ![TheRepo] = FALSE]
    /\ UNCHANGED <<up, publishes, faults, destKind, dest, dirVars,
                   wl_keys, wl_map, th>>
    /\ UNCHANGED ctlVars

Next ==
    \/ PublishToggle
    \/ PublishVersion
    \/ StartSync
    \/ FetchCodename
    \/ Plan
    \/ CopyPackage
    \/ CopyIndex
    \/ Invalidate
    \/ DeletePackage
    \/ DeleteIndex
    \/ SwapLockAndStep1
    \/ SwapStep2
    \/ SwapStep3
    \/ Return

Spec == Init /\ [][Next]_vars

----------------------------------------------------------------------------
(* SpecSwap: syncs of TheRepo that each get as far as the swap, one after  *)
(* the other, with the three steps of replace() and their failures.  The   *)
(* part of a sync before the swap is taken as a whole.                     *)

\* sync_repo and sync_repo_internal up to the swap, everything succeeding:
\* the metadata of an upstream that differs from the saved snapshot is in
\* the live directory and the destination mirrors it.
SyncUpToSwap ==
    /\ st.pc = "idle"
    /\ try_lock_some(TheRepo)
    /\ sync_locks' = try_lock_map(TheRepo)
    /\ \E u \in InitialUpstreams :
          /\ load_current(target[TheRepo]).status = "ok"
          /\ ~nothing_to_copy(repo_diff(load_repository(SnapshotDir(u)),
                                        load_current(target[TheRepo])))
          /\ up' = u
          /\ live' = [live EXCEPT ![TheRepo] = SnapshotDir(u)]
          /\ dest' = MirrorOf(u)
    /\ wl_keys' = map_insert(wl_keys, TheRepo)
    /\ st' = [IdleSt EXCEPT !.pc = "swap", !.saved0 = target[TheRepo]]
    /\ UNCHANGED <<publishes, faults, destKind, log, prev, target, target_tmp,
                   wl_locked, wl_map, th>>
    /\ UNCHANGED ctlVars

NextSwap ==
    \/ SyncUpToSwap
    \/ SwapLockAndStep1
    \/ SwapStep2
    \/ SwapStep3
    \/ Return

SpecSwap == Init /\ [][NextSwap]_vars

----------------------------------------------------------------------------
(* SpecLocks: NumThreads threads (the scheduler's worker, API handlers)    *)
(* calling sync_repo and load_current on the repositories of Repos.  The   *)
(* body of a sync is reduced to what touches the locks and the snapshot    *)
(* directories: the fetch into the live directory, load_current, the       *)
(* outcome of the copy phases, and the three steps of replace().           *)

NumThreads == 2
Threads    == 1..NumThreads

\* The upstream every repository mirrors in SpecLocks.
BaseUpstream == [pk |-> [k \in Codenames |-> {PkgOrder[1]}], ver |-> [p \in Pkgs |-> 1]]

IdleTh == [pc |-> "idle", op |-> "none", repo |-> "", slot |-> 0,
           was |-> FALSE, result |-> "none"]

\* Thread t is inside sync_repo_internal for r: it owns the LockHolder.
Syncing(t, r) ==
    th[t].op = "sync" /\ th[t].repo = r /\ th[t].pc \notin {"idle", "returned"}

\* Thread t is inside load_current for r, past lock_write.
InLoadCurrent(t, r) ==
    th[t].repo = r /\ th[t].pc \in {"load_held", "lc_held"}

\* Thread t is inside the swap of r: past lock_write, guard not dropped.
InSwap(t, r) ==
    th[t].repo = r /\ th[t].pc \in {"replace1", "replace2", "replace3", "swap_end"}

InitLocks ==
    /\ up = BaseUpstream
    /\ publishes = 0
    /\ faults = 0
    /\ destKind = "local"
    /\ dest = EmptyDestination
    /\ st = IdleSt
    /\ log = <<>>
    /\ prev = "none"
    /\ target = [r \in Repos |-> NoDir]
    /\ target_tmp = [r \in Repos |-> NoDir]
    /\ live = [r \in Repos |-> NoDir]
    /\ LocksInit
    /\ th = [t \in Threads |-> IdleTh]
    /\ CtlIdle

\* sync_repo(r): lock_sync, then sync_repo_internal or the would-block
\* error.
CallSync(t, r) ==
    /\ th[t].pc = "idle"
    /\ sync_locks' = try_lock_map(r)
    /\ th' = [th EXCEPT ![t] =
                IF try_lock_some(r)
                THEN [IdleTh EXCEPT !.pc = "fetch", !.op = "sync", !.repo = r]
                ELSE [IdleTh EXCEPT !.pc = "returned", !.op = "sync", !.repo = r,
                                    !.result = "would-block"]]
    /\ UNCHANGED <<pipeVars, dirVars, wl_keys, wl_locked, wl_map>>
    /\ UNCHANGED ctlVars

\* The caller of a refused sync_repo takes the error.
Returned(t) ==
    /\ th[t].pc = "returned"
    /\ th' = [th EXCEPT ![t] = IdleTh]
    /\ UNCHANGED <<pipeVars, dirVars, sync_locks, wl_keys, wl_locked, wl_map>>
    /\ UNCHANGED ctlVars

\* fetch_repository into the live directory of the repository.
SyncFetch(t) ==
    /\ th[t].pc = "fetch"
    /\ live' = [live EXCEPT ![th[t].repo] = SnapshotDir(up)]
    /\ th' = [th EXCEPT ![t].pc = "load_map"]
    /\ UNCHANGED <<pipeVars, target, target_tmp, sync_locks, wl_keys,
                   wl_locked, wl_map>>
    /\ UNCHANGED ctlVars

\* get_repo_status -> load_current_by_name -> load_current(r)
CallLoadCurrent(t, r) ==
    /\ th[t].pc = "idle"
    /\ th' = [th EXCEPT ![t] = [IdleTh EXCEPT !.pc = "lc_map",
                                              !.op = "load_current", !.repo = r]]
    /\ UNCHANGED <<pipeVars, dirVars, sync_locks, wl_keys, wl_locked, wl_map>>
    /\ UNCHANGED ctlVars

InnerOf(pc) ==
    CASE pc = "load_map" -> "load_inner"
      [] pc = "swap_map" -> "swap_inner"
      [] pc = "lc_map"   -> "lc_inner"

HeldOf(pc) ==
    CASE pc = "load_inner" -> "load_held"
      [] pc = "swap_inner" -> "replace1"
      [] pc = "lc_inner"   -> "lc_held"

\* Lock::lock, first half: map.lock(), then get or insert the entry.
LockMap(t) ==
    /\ th[t].pc \in {"load_map", "swap_map", "lc_map"}
    /\ wl_map = NoThread
    /\ wl_map' = t
    /\ wl_keys' = map_insert(wl_keys, th[t].repo)
    /\ th' = [th EXCEPT ![t].pc = InnerOf(@)]
    /\ UNCHANGED <<pipeVars, dirVars, sync_locks, wl_locked>>
    /\ UNCHANGED ctlVars

\* Lock::lock, second half: lock.lock() on the entry while the guard of
\* the map is still held; the map is released on return.
LockInner(t) ==
    /\ th[t].pc \in {"load_inner", "swap_inner", "lc_inner"}
    /\ ~wl_locked[th[t].repo]
    /\ wl_locked' = [wl_locked EXCEPT ![th[t].repo] = TRUE]
    /\ wl_map' = NoThread
    /\ th' = [th EXCEPT ![t].pc = HeldOf(@),
                        ![t].slot = SlotOf(wl_keys, th[t].repo)]
    /\ UNCHANGED <<pipeVars, dirVars, sync_locks, wl_keys>>
    /\ UNCHANGED ctlVars

\* The MutexGuard returned by Lock::lock goes out of scope.
GuardDrop(t) ==
    \E x \in guard_drop_targets(wl_keys, th[t].repo, th[t].slot) :
        wl_locked' = [wl_locked EXCEPT ![x] = FALSE]

\* load_current called by an API handler: read the snapshot, return.
LoadCurrentRead(t) ==
    /\ th[t].pc = "lc_held"
    /\ GuardDrop(t)
    /\ th' = [th EXCEPT ![t] = IdleTh]
    /\ UNCHANGED <<pipeVars, dirVars, sync_locks, wl_keys, wl_map>>
    /\ UNCHANGED ctlVars

\* load_current inside sync_repo_internal, then the diff and the copy,
\* invalidate and delete phases, which succeed or fail as a whole.
SyncLoad(t) ==
    /\ th[t].pc = "load_held"
    /\ GuardDrop(t)
    /\ \E ok \in BOOLEAN :
          th' = [th EXCEPT ![t].pc = IF ok THEN "swap_map" ELSE "drop",
                           ![t].slot = 0]
    /\ UNCHANGED <<pipeVars, dirVars, sync_locks, wl_keys, wl_map>>
    /\ UNCHANGED ctlVars

\* replace(), first to third step, under the write guard of the swap.
Replace1(t) ==
    /\ th[t].pc = "replace1"
    /\ IF replace_step1_ok(th[t].repo)
       THEN /\ replace_step1(th[t].repo)
            /\ th' = [th EXCEPT ![t].pc = "replace2", ![t].was = existed(th[t].repo)]
       ELSE /\ th' = [th EXCEPT ![t].pc = "swap_end"]
            /\ UNCHANGED dirVars
    /\ UNCHANGED <<pipeVars, lockVarsButTh>>
    /\ UNCHANGED ctlVars

Replace2(t) ==
    /\ th[t].pc = "replace2"
    /\ IF replace_step2_ok(th[t].repo)
       THEN /\ replace_step2(th[t].repo)
            /\ th' = [th EXCEPT ![t].pc = "replace3"]
       ELSE /\ th' = [th EXCEPT ![t].pc = "swap_end"]
            /\ UNCHANGED dirVars
    /\ UNCHANGED <<pipeVars, lockVarsButTh>>
    /\ UNCHANGED ctlVars

Replace3(t) ==
    /\ th[t].pc = "replace3"
    /\ IF replace_step3_ok(th[t].repo, th[t].was)
       THEN replace_step3(th[t].repo, th[t].was)
       ELSE UNCHANGED dirVars
    /\ th' = [th EXCEPT ![t].pc = "swap_end"]
    /\ UNCHANGED <<pipeVars, lockVarsButTh>>
    /\ UNCHANGED ctlVars

\* sync_repo_internal returns after the swap: the write guard is dropped.
SwapEnd(t) ==
    /\ th[t].pc = "swap_end"
    /\ GuardDrop(t)
    /\ th' = [th EXCEPT ![t].pc = "drop", ![t].slot = 0]
    /\ UNCHANGED <<pipeVars, dirVars, sync_locks, wl_keys, wl_map>>
    /\ UNCHANGED ctlVars

\* sync_repo returns: the LockHolder is dropped.
HolderDrop(t) ==
    /\ th[t].pc = "drop"
    /\ sync_locks' = holder_drop(th[t].repo)
    /\ th' = [th EXCEPT ![t] = IdleTh]
    /\ UNCHANGED <<pipeVars, dirVars, wl_keys, wl_locked, wl_map>>
    /\ UNCHANGED ctlVars

NextLocks ==
    \/ \E t \in Threads, r \in Repos : CallSync(t, r)
    \/ \E t \in Threads : Returned(t)
    \/ \E t \in Threads : SyncFetch(t)
    \/ \E t \in Threads, r \in Repos : CallLoadCurrent(t, r)
    \/ \E t \in Threads : LockMap(t)
    \/ \E t \in Threads : LockInner(t)
    \/ \E t \in Threads : LoadCurrentRead(t)
    \/ \E t \in Threads : SyncLoad(t)
    \/ \E t \in Threads : Replace1(t)
    \/ \E t \in Threads : Replace2(t)
    \/ \E t \in Threads : Replace3(t)
    \/ \E t \in Threads : SwapEnd(t)
    \/ \E t \in Threads : HolderDrop(t)

SpecLocks == InitLocks /\ [][NextLocks]_vars

----------------------------------------------------------------------------
(* SpecWrite: API handler threads calling load_current, each of which is   *)
(* one lock_write held for the time of the read.                           *)

NumWriters == 3
Writers    == 1..NumWriters

InitWrite ==
    /\ up = BaseUpstream
    /\ publishes = 0
    /\ faults = 0
    /\ destKind = "local"
    /\ dest = EmptyDestination
    /\ st = IdleSt
    /\ log = <<>>
    /\ prev = "none"
    /\ target = [r \in Repos |-> NoDir]
    /\ target_tmp = [r \in Repos |-> NoDir]
    /\ live = [r \in Repos |-> NoDir]
    /\ LocksInit
    /\ th = [t \in Writers |-> IdleTh]
    /\ CtlIdle

NextWrite ==
    \/ \E t \in Writers, r \in Repos : CallLoadCurrent(t, r)
    \/ \E t \in Writers : LockMap(t)
    \/ \E t \in Writers : LockInner(t)
    \/ \E t \in Writers : LoadCurrentRead(t)

SpecWrite == InitWrite /\ [][NextWrite]_vars

----------------------------------------------------------------------------
(* fetcher.rs: RetryFetcher::fetch (specification SpecFetch): one call of  *)
(* fetch, one iteration of its loop per step, against a wrapped fetcher    *)
(* whose answers to the successive calls are drawn at the start.           *)

MaxRetries == 3   \* largest general.max_retries

\* What the wrapped fetcher answers: 200 stands for Ok(reader), the others
\* for Err(FetchError{code}) as DirectFetcher builds them (the HTTP status,
\* or 503 for a transport error).
FetchCodes == {200, 404, 500, 503}

\* err: Option<FetchError>, None before the first failed attempt.
NoError == 0

\* The engine as it stands while only the scheduler, the API or the
\* fetcher is looked at.
EngineIdle ==
    /\ up = BaseUpstream
    /\ publishes = 0
    /\ faults = 0
    /\ destKind = "local"
    /\ dest = EmptyDestination
    /\ st = IdleSt
    /\ log = <<>>
    /\ prev = "none"
    /\ target_tmp = [r \in Repos |-> NoDir]
    /\ live = [r \in Repos |-> NoDir]
    /\ LocksInit
    /\ th = <<>>

engineVarsButTarget ==
    <<pipeVars, target_tmp, live, lockVars>>

InitFetch ==
    /\ EngineIdle
    /\ target = [r \in Repos |-> NoDir]
    /\ now = 0 /\ config = <<>> /\ sync_map = <<>> /\ sched = <<>> /\ api = <<>>
    /\ df = <<>> /\ ix = <<>>
    /\ \E retries \in 0..MaxRetries, script \in [1..MaxRetries -> FetchCodes] :
          rf = [pc |-> "loop", retries |-> retries, script |-> script,
                n |-> 0, calls |-> 0, sleeps |-> 0, err |-> NoError,
                result |-> "none"]

\* One iteration of `for n in 0..self.retries`: sleep when n > 0, call the
\* wrapped fetcher, return its Ok, else keep its error and go on.
FetchAttempt ==
    /\ rf.pc = "loop"
    /\ rf.n < rf.retries
    /\ LET code == rf.script[rf.calls + 1]
       IN  rf' = [rf EXCEPT
                    !.sleeps = IF rf.n > 0 THEN @ + 1 ELSE @,
                    !.calls  = @ + 1,
                    !.pc     = IF code = 200 THEN "done" ELSE "loop",
                    !.result = IF code = 200 THEN "ok" ELSE @,
                    !.err    = IF code = 200 THEN @ ELSE code,
                    !.n      = IF code = 200 THEN @ ELSE @ + 1]
    /\ UNCHANGED <<engineVarsButTarget, target, now, config, sync_map, sched, api,
                   df, ix>>

\* The loop is over: Err(err.unwrap()), which panics when no attempt was
\* made.
FetchExhausted ==
    /\ rf.pc = "loop"
    /\ rf.n >= rf.retries
    /\ rf' = [rf EXCEPT !.pc = "done",
                        !.result = IF rf.err = NoError THEN "panic" ELSE "error"]
    /\ UNCHANGED <<engineVarsButTarget, target, now, config, sync_map, sched, api,
                   df, ix>>

NextFetch ==
    \/ FetchAttempt
    \/ FetchExhausted

SpecFetch == InitFetch /\ [][NextFetch]_vars

----------------------------------------------------------------------------
(* sync.rs: the scheduler thread and the status map; server.rs: the        *)
(* control API (specification SpecSched).  Time is in seconds since the    *)
(* epoch and advances a minute at a time.  A sync the scheduler runs is    *)
(* taken by its outcome; its steps are those of Spec.                      *)

MaxTime  == 4   \* minutes the clock runs after the epoch
MaxDelay == 2   \* largest min_sync_delay and max_sync_delay, in minutes

\* Duration::from_secs(delay as u64 * 60)
delay_secs(minutes) == minutes * 60

Min(a, b) == IF a < b THEN a ELSE b

\* The names a request may carry: the configured ones and an unknown one.
UnknownRepo == "x"
ApiNames == Repos \cup {UnknownRepo}

\* get_repo_config(name).is_some()
configured(name) == name \in Repos

\* A variant of the initial status that is due at once.
initial_status_due(t, max_sync_delay) ==
    [current |-> "waiting", next_sync |-> t, last_sync |-> 0,
     last_result |-> "none"]

\* new_internal at time t: the SyncStatus inserted for every configured
\* repository; last_sync is UNIX_EPOCH and last_result None.
initial_status(t, max_sync_delay) ==
    [current |-> "waiting",
     next_sync |-> t + delay_secs(max_sync_delay),
     last_sync |-> 0, last_result |-> "none"]

\* sync_completed at time t on one status.
completed_status(t, max_sync_delay, status, result) ==
    [status EXCEPT !.last_sync = t,
                   !.next_sync = t + delay_secs(max_sync_delay),
                   !.last_result = result]

\* queue_sync at time t on one status: the new next_sync.
\* now.duration_since(last_sync) is Ok because the clock never runs
\* backwards.
queued_next_sync(t, min_sync_delay, status) ==
    LET tmp_next_sync == t + delay_secs(min_sync_delay) - (t - status.last_sync)
    IN  Min(tmp_next_sync, status.next_sync)

\* A variant of sync_completed that leaves next_sync as it was.
sync_completed_keeps_next(name, result) ==
    IF name \in DOMAIN sync_map
    THEN [sync_map EXCEPT ![name].last_sync = now, ![name].last_result = result]
    ELSE sync_map

\* sync_completed(name, result): the map afterwards.
sync_completed(name, result) ==
    IF name \in DOMAIN sync_map
    THEN [sync_map EXCEPT ![name] =
             completed_status(now, config.max_sync_delay, @, result)]
    ELSE sync_map

\* A variant of queue_sync that makes the repository due at once.
queue_sync_at_once(name) ==
    IF name \in DOMAIN sync_map
    THEN [sync_map EXCEPT ![name].next_sync = Min(now, @)]
    ELSE sync_map

\* A variant of queue_sync that takes the computed time whatever the
\* present next_sync is.
queue_sync_overwriting(name) ==
    IF name \in DOMAIN sync_map
    THEN [sync_map EXCEPT ![name].next_sync =
             now + delay_secs(config.min_sync_delay) - (now - sync_map[name].last_sync)]
    ELSE sync_map

\* queue_sync(name): the map afterwards.
queue_sync(name) ==
    IF name \in DOMAIN sync_map
    THEN [sync_map EXCEPT ![name].next_sync =
             queued_next_sync(now, config.min_sync_delay, sync_map[name])]
    ELSE sync_map

\* next_repo_to_sync: the map is walked in key order and an entry replaces
\* the one kept only when its next_sync is strictly smaller.
NoRepo == [name |-> "", next_sync |-> 0]

RECURSIVE closer_from(_, _)
closer_from(i, closer) ==
    IF i > Len(RepoOrder) THEN closer
    ELSE LET key   == RepoOrder[i]
             value == sync_map[key]
         IN  closer_from(i + 1,
                 IF closer = NoRepo \/ value.next_sync < closer.next_sync
                 THEN [name |-> key, next_sync |-> value.next_sync]
                 ELSE closer)

\* A variant of next_repo_to_sync that takes the first key of the map.
next_repo_to_sync_first ==
    [name |-> RepoOrder[1], next_sync |-> sync_map[RepoOrder[1]].next_sync]

next_repo_to_sync == closer_from(1, NoRepo)

\* One iteration of the loop of start_scheduler: the repository to call
\* sync_repo for when time.duration_since(now) is Err, else the time to
\* sleep, in seconds.
scheduler_iteration ==
    LET next == next_repo_to_sync
    IN  IF next = NoRepo
        THEN [sync |-> FALSE, name |-> "", sleep |-> 10]
        ELSE IF next.next_sync >= now
        THEN [sync |-> FALSE, name |-> "", sleep |-> Min(next.next_sync - now, 10)]
        ELSE [sync |-> TRUE, name |-> next.name, sleep |-> 0]

\* get_status(name): the stored status with `current` replaced by
\* _repo_status(name), or None.
NoStatus == [current |-> "", next_sync |-> 0, last_sync |-> 0, last_result |-> ""]

get_status(name) ==
    IF name \in DOMAIN sync_map
    THEN [sync_map[name] EXCEPT !.current = repo_status_current(name)]
    ELSE NoStatus

\* load_current_by_name(name): "none" for a name that is not configured,
\* else what load_current gives for the saved directory.
load_current_by_name(name) ==
    IF configured(name) THEN load_current(target[name]).status ELSE "none"

\* normalize: milliseconds since the epoch.
normalize(t) == t * 1000

\* Server::get_repo_status and the response built from it: the Status
\* (size and package count of the loaded repository left out), or 404 when
\* load_current_by_name gives anything but Ok(Some(..)) or get_status
\* gives None.
NotFound == [code |-> 404, name |-> "", status |-> "", next_sync |-> 0,
             last_sync |-> 0, last_result |-> ""]

get_repo_status(name) ==
    IF load_current_by_name(name) = "ok" /\ get_status(name) # NoStatus
    THEN LET sync_state == get_status(name)
         IN  [code |-> 200, name |-> name, status |-> sync_state.current,
              next_sync |-> normalize(sync_state.next_sync),
              last_sync |-> normalize(sync_state.last_sync),
              last_result |-> IF sync_state.last_result = "none" THEN ""
                              ELSE sync_state.last_result]
    ELSE NotFound

\* How sync_repo ends: Ok, an Err (its message), or a panic: the unwrap of
\* a failed fetch in redhat::fetch_repository_internal, the expect on the
\* stored index in the signature check, the expect on the authorization
\* secret.
SyncResults == {"successful", "failed", "panic"}

IdleSched == [pc |-> "loop", repo |-> "", result |-> "none"]
IdleApi   == [pc |-> "idle", op |-> "", name |-> "", response |-> NotFound,
              in_flight |-> FALSE]

\* A saved snapshot directory one of whose listed index files is gone.
DamagedSnapshot ==
    [SnapshotDir(BaseUpstream) EXCEPT !.files[<<"focal", "Packages">>] = NoFile]

\* What the data directory holds when the process starts.
StartupDirs == {NoDir, SnapshotDir(BaseUpstream), DamagedSnapshot}

InitSched ==
    /\ EngineIdle
    /\ \E d \in StartupDirs : target = [r \in Repos |-> IF r = TheRepo THEN d ELSE NoDir]
    /\ now \in {0, delay_secs(1)}
    /\ config \in [min_sync_delay : 1..MaxDelay, max_sync_delay : 1..MaxDelay,
                    created : {now}]
    /\ sync_map = [r \in Repos |-> initial_status(now, config.max_sync_delay)]
    /\ sched = IdleSched
    /\ api = IdleApi
    /\ rf = <<>>
    /\ df = <<>>
    /\ ix = <<>>

schedFrame == <<pipeVars, dirVars, wl_keys, wl_locked, wl_map, th, config, rf,
                df, ix>>

\* A minute passes.
Tick ==
    /\ now < delay_secs(MaxTime)
    /\ now' = now + delay_secs(1)
    /\ UNCHANGED <<schedFrame, sync_locks, sync_map, sched, api>>

\* The scheduler loop finds the closest repository overdue
\* (time.duration_since(now) is Err) and calls sync_repo, which takes the
\* sync lock.  An iteration that sleeps changes nothing.
SchedStart ==
    /\ sched.pc = "loop"
    /\ scheduler_iteration.sync
    /\ sched' = [pc |-> "syncing", repo |-> scheduler_iteration.name,
                 result |-> "none"]
    /\ sync_locks' = try_lock_map(scheduler_iteration.name)
    /\ UNCHANGED <<schedFrame, now, sync_map, api>>

\* sync_repo ends; it cannot end well when the saved snapshot does not
\* load.  Its LockHolder is dropped, also when a panic unwinds;
\* sync_completed is called with the error message or "successful"; a
\* panic ends the thread (in a build with panic = "abort", the process).
SchedSyncEnd ==
    /\ sched.pc = "syncing"
    /\ \E result \in SyncResults :
          /\ sched' = [sched EXCEPT !.pc = IF result = "panic" THEN "dead" ELSE "loop",
                                    !.result = result]
          /\ result = "successful" => load_current(target[sched.repo]).status = "ok"
          /\ sync_map' = IF result = "panic" THEN sync_map
                         ELSE sync_completed(sched.repo, result)
    /\ sync_locks' = holder_drop(sched.repo)
    /\ UNCHANGED <<schedFrame, now, api>>

\* GET /repository/{repo}
ApiGet ==
    /\ api.pc = "idle"
    /\ \E name \in ApiNames :
          api' = [pc |-> "answered", op |-> "get", name |-> name,
                  response |-> get_repo_status(name), in_flight |-> FALSE]
    /\ UNCHANGED <<schedFrame, now, sync_locks, sync_map, sched>>

\* POST /repository/{repo}/sync: queue_sync first,  (in_flight records
\* that the scheduler was inside sync_repo of that repository when
\* queue_sync ran; the program keeps no such field.)
ApiPostQueue ==
    /\ api.pc = "idle"
    /\ \E name \in ApiNames :
          /\ sync_map' = queue_sync(name)
          /\ api' = [pc |-> "queued", op |-> "post", name |-> name,
                     response |-> NotFound,
                     in_flight |-> sched.pc = "syncing" /\ sched.repo = name]
    /\ UNCHANGED <<schedFrame, now, sync_locks, sched>>

\* then get_repo_status.
ApiPostStatus ==
    /\ api.pc = "queued"
    /\ api' = [api EXCEPT !.pc = "answered", !.response = get_repo_status(api.name),
                          !.in_flight = FALSE]
    /\ UNCHANGED <<schedFrame, now, sync_locks, sync_map, sched>>

\* The response is sent.
ApiDone ==
    /\ api.pc = "answered"
    /\ api' = IdleApi
    /\ UNCHANGED <<schedFrame, now, sync_locks, sync_map, sched>>

NextSched ==
    \/ Tick
    \/ SchedStart
    \/ SchedSyncEnd
    \/ ApiGet
    \/ ApiPostQueue
    \/ ApiPostStatus
    \/ ApiDone

SpecSched == InitSched /\ [][NextSched]_vars

\* The same with a clock that keeps going up to its bound, a scheduler
\* thread that goes round its loop as long as it lives (it sleeps ten
\* seconds at most), and syncs that all come to an end.
SpecSchedFair ==
    /\ InitSched
    /\ [][NextSched]_vars
    /\ WF_vars(Tick)
    /\ WF_vars(SchedStart)
    /\ WF_vars(SchedSyncEnd)

----------------------------------------------------------------------------
(* sync.rs: SyncManager::repo_diff as a function (specification SpecDiff): *)
(* the two repositories are drawn at the start and one step applies        *)
(* repo_diff to them.  A repository is what fetch_repository_internal      *)
(* reads from a metadata store holding some upstream; the detached         *)
(* signature Release.gpg may be there or not.                              *)

\* The upstreams the repositories are read from: the second package path
\* stays at its first version.
DiffUpstreams ==
    {u \in [pk : [Codenames -> SUBSET Pkgs], ver : [Pkgs -> 1..MaxVer]] :
        u.ver[PkgOrder[2]] = 1}

\* add_optional_index for Release.gpg: the IndexFile of the detached
\* signature, hashed as read (Hash::create_sha256_hash).
GpgIndex(k, rel) ==
    [path |-> <<k, "Release.gpg">>, size |-> 3,
     hash |-> [kind |-> "sha256", hex |-> rel.sha + 100], signature |-> "None"]

\* The Collection of codename k read from a store holding upstream u: the
\* Release first (with the signature text when Release.gpg is there), then
\* Release.gpg, then the indexes Release lists.
DiffCollection(u, k, gpg) ==
    LET col == ReadCollection(SnapshotDir(u), k, TRUE).col
        rel == SnapshotDir(u).files[<<k, "Release">>]
    IN  IF ~gpg THEN col
        ELSE [col EXCEPT !.indexes =
                 <<[Head(col.indexes) EXCEPT !.signature = "PGPExternal"],
                   GpgIndex(k, rel)>> \o Tail(col.indexes)]

\* The Repository of the codenames ks, in the order of config.versions;
\* the codenames in g have a Release.gpg.
DiffRepository(u, g, ks) ==
    LET order == InOrder(Versions, ks)
    IN  [collections |-> [i \in 1..Len(order) |->
                             DiffCollection(u, order[i], order[i] \in g)]]

\* A repository without collections: what load_current gives when nothing
\* was saved.
NoCollections == [collections |-> <<>>]

NewRepositories ==
    {DiffRepository(u, g, Codenames) :
        u \in DiffUpstreams, g \in SUBSET {Versions[1]}}

CurrentRepositories ==
    {NoCollections} \cup
    {DiffRepository(u, g, ks) :
        u \in DiffUpstreams, g \in SUBSET {Versions[1]},
        ks \in {Codenames, {Versions[2]}}}

InitDiff ==
    /\ EngineIdle
    /\ target = [r \in Repos |-> NoDir]
    /\ now = 0 /\ config = <<>> /\ sync_map = <<>> /\ sched = <<>> /\ api = <<>>
    /\ rf = <<>> /\ ix = <<>>
    /\ \E repo \in NewRepositories, current_repo \in CurrentRepositories :
          df = [pc |-> "call", repo |-> repo, current_repo |-> current_repo,
                plan |-> NoPlan]

\* repo_diff(&repo, current_repo)
Diff ==
    /\ df.pc = "call"
    /\ df' = [df EXCEPT !.pc = "done",
                        !.plan = repo_diff(df.repo, df.current_repo)]
    /\ UNCHANGED <<engineVarsButTarget, target, now, config, sync_map, sched, api,
                   rf, ix>>

NextDiff == Diff

SpecDiff == InitDiff /\ [][NextDiff]_vars

----------------------------------------------------------------------------
(* SpecIndex: the metadata fetch of one Debian codename or of one Red Hat  *)
(* repository, file by file, with the optional signature indexes, over the *)
(* live store (fetch_repository, in a sync) and over the saved store       *)
(* (load_repository, in load_current).  The live directory tmp_<name> is   *)
(* created by the first fetch and goes away only when replace() renames    *)
(* it.  The upload phases of a sync are taken by their outcome.            *)

MaxIxSyncs   == 2
MaxIxPublish == 1

RepoKinds == {"debian", "redhat"}

\* The top-level index, the optional indexes in the order in which
\* add_optional_index is called for them, and the index the top-level
\* index lists.
Anchor(kind) == IF kind = "debian" THEN "Release" ELSE "repomd.xml"

Optionals(kind) ==
    IF kind = "debian" THEN <<"InRelease", "Release.gpg">>
    ELSE <<"repomd.xml.asc">>

Listed(kind) == IF kind = "debian" THEN "Packages" ELSE "primary.xml"

IxFiles(kind) == {Anchor(kind), Listed(kind)} \cup Range(Optionals(kind))

IxTarget(kind) == IF kind = "debian" THEN Versions[1] ELSE ""

\* The length of the file upstream serves at f.
IxSize(f) ==
    CASE f \in {"Release", "repomd.xml"}         -> 21
      [] f \in {"Release.gpg", "repomd.xml.asc"} -> 3
      [] f = "InRelease"                         -> 24
      [] OTHER                                   -> 5

\* The IndexFile of f: the top-level index has Hash::None, the others the
\* sha256 of their bytes.
IxIndex(kind, f, signature) ==
    [path |-> <<IxTarget(kind), f>>, size |-> IxSize(f),
     hash |-> IF f = Anchor(kind) THEN HashNone
              ELSE [kind |-> "sha256", hex |-> 100 + IxSize(f)],
     signature |-> signature]

LiveStore  == [live |-> TRUE, dir |-> ix.livedir, serve |-> ix.serve]
SavedStore == [live |-> FALSE, dir |-> ix.saved.dir, serve |-> ix.serve]

\* RepoMetadataStore::fetch.  Live store: the file is written only when
\* the download succeeded, a 404 is ErrorKind::NotFound and any other
\* failure ErrorKind::Other.  Saved store: File::open of the saved file.
store_fetch(s, f) ==
    IF s.live
    THEN CASE s.serve[f] = 200 -> [status |-> "ok",
                                   store  |-> [s EXCEPT !.dir = @ \cup {f}]]
           [] s.serve[f] = 404 -> [status |-> "not-found", store |-> s]
           [] OTHER            -> [status |-> "other", store |-> s]
    ELSE [status |-> IF f \in s.dir THEN "ok" ELSE "not-found", store |-> s]

\* utils::add_optional_index: NotFound is swallowed, any other error is
\* returned, a fetched index is inserted at position 0.
add_optional_index(s, kind, f, indexes, signature) ==
    LET r == store_fetch(s, f)
    IN  IF r.status = "not-found"
        THEN [status |-> "ok", found |-> FALSE, store |-> r.store,
              indexes |-> indexes]
        ELSE IF r.status # "ok"
        THEN [status |-> r.status, found |-> FALSE, store |-> r.store,
              indexes |-> indexes]
        ELSE [status |-> "ok", found |-> TRUE, store |-> r.store,
              indexes |-> <<IxIndex(kind, f, signature)>> \o indexes]

IxResult(status, store, collections) ==
    [status |-> status, store |-> store, repo |-> [collections |-> collections]]

IxPackages == <<Package(PkgOrder[1], 1)>>

\* debian::fetch_repository_internal for one codename.
debian_fetch(s, allow_empty) ==
    LET r0  == store_fetch(s, "Release")
        o1  == add_optional_index(r0.store, "debian", "InRelease", <<>>,
                                  "PGPEmbedded")
        o2  == add_optional_index(o1.store, "debian", "Release.gpg",
                                  o1.indexes, "None")
        rel == IxIndex("debian", "Release",
                       IF o2.found THEN "PGPExternal" ELSE "None")
        r3  == store_fetch(o2.store, "Packages")
    IN  IF r0.status # "ok"
        THEN IF allow_empty /\ r0.status = "not-found"
             THEN IxResult("ok", r0.store, <<>>)
             ELSE IxResult(r0.status, r0.store, <<>>)
        ELSE IF o1.status # "ok" THEN IxResult(o1.status, o1.store, <<>>)
        ELSE IF o2.status # "ok" THEN IxResult(o2.status, o2.store, <<>>)
        ELSE IF r3.status # "ok" THEN IxResult(r3.status, r3.store, <<>>)
        ELSE IxResult("ok", r3.store,
                 <<[target   |-> IxTarget("debian"),
                    indexes  |-> (<<rel>> \o o2.indexes)
                                     \o <<IxIndex("debian", "Packages", "None")>>,
                    packages |-> IxPackages]>>)

\* redhat::fetch_repository_internal: repomd.xml is pushed after the
\* optional signature, and a data file that cannot be fetched is an
\* unwrap() of an Err.
redhat_fetch(s) ==
    LET r0  == store_fetch(s, "repomd.xml")
        o1  == add_optional_index(r0.store, "redhat", "repomd.xml.asc", <<>>,
                                  "None")
        md  == IxIndex("redhat", "repomd.xml",
                       IF o1.found THEN "PGPExternal" ELSE "None")
        r2  == store_fetch(o1.store, "primary.xml")
    IN  IF r0.status # "ok" THEN IxResult(r0.status, r0.store, <<>>)
        ELSE IF o1.status # "ok" THEN IxResult(o1.status, o1.store, <<>>)
        ELSE IF r2.status # "ok" THEN IxResult("panic", r2.store, <<>>)
        ELSE IxResult("ok", r2.store,
                 <<[target   |-> IxTarget("redhat"),
                    indexes  |-> Append(Append(o1.indexes, md),
                                        IxIndex("redhat", "primary.xml", "None")),
                    packages |-> IxPackages]>>)

\* fetch_repository over the live store.
ix_fetch_repository ==
    IF ix.kind = "debian" THEN debian_fetch(LiveStore, FALSE)
    ELSE redhat_fetch(LiveStore)

\* SyncManager::load_current: load_repository over the saved store, or
\* no collections when there is no saved directory.
ix_load_current ==
    IF ~ix.saved.exists THEN IxResult("ok", SavedStore, <<>>)
    ELSE IF ix.kind = "debian" THEN debian_fetch(SavedStore, TRUE)
    ELSE redhat_fetch(SavedStore)

InitIndex ==
    /\ EngineIdle
    /\ target = [r \in Repos |-> NoDir]
    /\ now = 0 /\ config = <<>> /\ sync_map = <<>> /\ sched = <<>> /\ api = <<>>
    /\ rf = <<>> /\ df = <<>>
    /\ \E kind \in RepoKinds, key \in BOOLEAN, valid \in BOOLEAN :
          \E serve \in [IxFiles(kind) -> FetchCodes \ {503}] :
              /\ key \/ valid
              /\ ix = [kind |-> kind, key |-> key, valid |-> valid,
                       pc |-> "idle", serve |-> serve,
                       livedir |-> {}, saved |-> [exists |-> FALSE, dir |-> {}],
                       repo |-> NoCollections, result |-> "none",
                       swapped |-> FALSE, mutated |-> FALSE,
                       syncs |-> 0, publishes |-> 0]

\* Signature::matches: the embedded or external signature is verified
\* against the public key; Signature::None is Ok.
signature_matches(signature, valid) ==
    CASE signature = "None" -> TRUE
      [] OTHER              -> valid

\* The signature check of sync_repo_internal, made when the repository
\* has a public key configured: every index of every collection.
ix_signatures_ok(repo) ==
    ix.key =>
        \A c \in DOMAIN repo.collections :
            \A x \in DOMAIN repo.collections[c].indexes :
                signature_matches(repo.collections[c].indexes[x].signature,
                                  ix.valid)

ixFrame == <<engineVarsButTarget, target, now, config, sync_map, sched, api,
             rf, df>>

\* Upstream starts or stops serving a file, or starts failing for it.
IxPublish ==
    /\ ix.pc = "idle"
    /\ ix.publishes < MaxIxPublish
    /\ \E f \in IxFiles(ix.kind) :
          \E c \in (FetchCodes \ {503}) \ {ix.serve[f]} :
              ix' = [ix EXCEPT !.serve[f] = c, !.publishes = @ + 1]
    /\ UNCHANGED ixFrame

\* sync_repo_internal up to the `?` on fetch_repository.  A panic ends the
\* thread of the scheduler.
IxFetch ==
    /\ ix.pc = "idle"
    /\ ix.syncs < MaxIxSyncs
    /\ LET r == ix_fetch_repository
       IN  ix' = [ix EXCEPT
                    !.syncs   = @ + 1,
                    !.livedir = r.store.dir,
                    !.repo    = r.repo,
                    !.swapped = FALSE,
                    !.mutated = FALSE,
                    !.result  = IF r.status = "ok" THEN "none" ELSE r.status,
                    !.pc      = CASE r.status = "ok"    -> "fetched"
                                  [] r.status = "panic" -> "dead"
                                  [] OTHER              -> "idle"]
    /\ UNCHANGED ixFrame

\* sync_repo_internal from the signature check on: load_current, the
\* early return when there is nothing to copy; else the copies, the
\* invalidation and the deletes, which fail or not, and replace(), which
\* renames the live directory to the saved one.
IxFinish ==
    /\ ix.pc = "fetched"
    /\ LET cur  == ix_load_current
           plan == repo_diff(ix.repo, cur.repo)
       IN  IF ~ix_signatures_ok(ix.repo)
           THEN ix' = [ix EXCEPT !.pc = "idle", !.result = "invalid-data"]
           ELSE IF cur.status # "ok"
           THEN ix' = [ix EXCEPT !.pc = IF cur.status = "panic" THEN "dead"
                                        ELSE "idle",
                                 !.result = cur.status]
           ELSE IF nothing_to_copy(plan)
           THEN ix' = [ix EXCEPT !.pc = "idle", !.result = "ok"]
           ELSE \E fails \in BOOLEAN :
                  IF fails
                  THEN ix' = [ix EXCEPT !.pc = "idle", !.result = "other",
                                        !.mutated = TRUE]
                  ELSE ix' = [ix EXCEPT
                                !.pc = "idle", !.result = "ok",
                                !.mutated = TRUE, !.swapped = TRUE,
                                !.saved = [exists |-> TRUE, dir |-> ix.livedir],
                                !.livedir = {}]
    /\ UNCHANGED ixFrame

NextIndex ==
    \/ IxPublish
    \/ IxFetch
    \/ IxFinish

SpecIndex == InitIndex /\ [][NextIndex]_vars

----------------------------------------------------------------------------
(* Properties of one sync (specification Spec).                            *)

Failed == st.result \notin {"none", "ok"}

Uploads(kind) == {i \in 1..Len(log) : log[i].op = "upload" /\ log[i].kind = kind}

OpRank(e) ==
    CASE e.op = "upload"     -> 1
      [] e.op = "invalidate" -> 2
      [] e.op = "delete"     -> 3
      [] e.op = "swap"       -> 4

PhaseRank(ph) ==
    CASE ph \in {"copy_packages", "copy_indexes"}     -> 1
      [] ph = "invalidate"                            -> 2
      [] ph \in {"delete_packages", "delete_indexes"} -> 3
      [] ph = "swap"                                  -> 4
      [] OTHER                                        -> 0

CountOps(op, n) == Cardinality({i \in 1..n : log[i].op = op})

\* Every path a collection of the repository read from `dir` refers to.
ReferencedPaths(dir) ==
    LET cs == load_current(dir).collections
    IN  UNION {PathsOf(cs[c].packages) \cup PathsOf(cs[c].indexes) : c \in 1..Len(cs)}

\* A sync from nothing leaves the files of the upstream in the snapshot
\* directory, and without failures the destination mirrors the upstream:
\* the states Init starts from are states the program reaches.
MirrorReached ==
    (faults = 0 /\ st.pc = "done" /\ st.result = "ok" /\ st.phase = "swap")
        => /\ target[TheRepo] = SnapshotDir(up)
           /\ (publishes = 0 /\ ~st.saved0.exists) => dest = MirrorOf(up)

\* C2: within a sync, an index is uploaded only after every package copy
\* operation of the sync has been uploaded, and once a package copy has
\* failed no index is uploaded.
C2_PackagesBeforeIndexes ==
    /\ \A i \in Uploads("index") :
          \A q \in 1..Len(st.plan.packages_copy) :
             \E j \in 1..(i - 1) :
                log[j] = Event("upload", "package", st.plan.packages_copy[q].path, {})
    /\ (Failed /\ st.phase = "copy_packages") => Uploads("index") = {}

C2_Witness ==
    /\ Len(st.plan.packages_copy) = 2
    /\ Uploads("index") # {}

\* C3: the operations of a sync come in the order uploads, invalidation,
\* deletes, swap; the invalidation follows all uploads and precedes every
\* delete, the swap follows all deletes, and a failure in one phase leaves
\* every later phase without any operation.
C3_PhasesInOrder ==
    /\ \A i, j \in 1..Len(log) : i < j => OpRank(log[i]) <= OpRank(log[j])
    /\ \A j \in 1..Len(log) :
          /\ log[j].op = "invalidate" =>
                CountOps("upload", j) =
                    Len(st.plan.packages_copy) + Len(st.plan.index_copy)
          /\ log[j].op \in {"delete", "swap"} => CountOps("invalidate", j) = 1
          /\ log[j].op = "swap" =>
                CountOps("delete", j) =
                    Len(st.plan.packages_delete) + Len(st.plan.index_delete)
    /\ Failed => \A i \in 1..Len(log) : OpRank(log[i]) <= PhaseRank(st.phase)

C3_Witness ==
    /\ \A op \in {"upload", "invalidate", "delete", "swap"} :
          CountOps(op, Len(log)) >= 1
    /\ st.result = "ok"

\* C4: when a sync that changed something returns success, every package
\* path and every index path the newly saved repository refers to is
\* present at the destination.
C4_SnapshotPresentAtDestination ==
    (faults = 0 /\ st.pc = "done" /\ st.result = "ok" /\ st.phase = "swap")
        => \A p \in ReferencedPaths(target[TheRepo]) : dest[p].present

\* C5: a sync that has failed before the swap has left the saved snapshot
\* directory as it was when the sync started, so load_current returns the
\* repository it returned then.
C5_FailureBeforeSwapKeepsSnapshot ==
    (Failed /\ st.phase # "swap")
        => /\ target[TheRepo] = st.saved0
           /\ load_current(target[TheRepo]) = load_current(st.saved0)

C5_Witness ==
    /\ Failed
    /\ st.phase = "delete_packages"
    /\ st.saved0.exists
    /\ Uploads("index") # {}

\* C6: when a step of replace() has failed, load_current still returns the
\* repository of the previous snapshot.
C6_FailedReplaceKeepsSnapshot ==
    (Failed /\ st.phase = "swap")
        => load_current(target[TheRepo]) = load_current(st.saved0)

\* C9: a sync that fails with invalid-data has uploaded no index.
C9_InvalidDataBeforeIndexes ==
    st.result = "invalid-data" => Uploads("index") = {}

\* C10: a sync that retries after a failure in the copy, invalidate,
\* delete or swap phase, with the upstream unchanged and no failure of the
\* destination or the network during the retry, succeeds.
C10_RetrySucceeds ==
    (prev = "late-failure" /\ st.pc = "done" /\ ~st.fault) => st.result = "ok"

\* The paths passed to destination.invalidate by the sync.
InvalidatedPaths ==
    UNION {log[i].paths : i \in {j \in 1..Len(log) : log[j].op = "invalidate"}}

\* C11: every path a successful sync has uploaded that the snapshot saved
\* at its start already referred to, in any collection, is among the paths
\* the sync has passed to destination.invalidate.
C11_OverwrittenPathsInvalidated ==
    (st.pc = "done" /\ st.result = "ok" /\ st.phase = "swap")
        => \A i \in Uploads("package") \cup Uploads("index") :
              log[i].path \in ReferencedPaths(st.saved0)
                  => log[i].path \in InvalidatedPaths

\* C12: when the diff of a sync has an empty packages_copy list and an
\* empty index_copy list, the sync returns success without any upload,
\* invalidate call, delete or swap: destination, saved snapshot and live
\* directory are left as they were.
C12_NoOpStep ==
    LET current == load_current(target[TheRepo])
        plan    == repo_diff([collections |-> st.collections], current)
    IN  (/\ st.pc = "plan"
         /\ signatures_ok(st.collections)
         /\ current.status = "ok"
         /\ plan.packages_copy = <<>> /\ plan.index_copy = <<>>)
            => /\ st'.pc = "done" /\ st'.result = "ok"
               /\ log' = <<>>
               /\ UNCHANGED <<dest, dirVars>>

----------------------------------------------------------------------------
(* Properties of the locks (specification SpecLocks).                      *)

\* C1: at no instant are two threads inside a sync of the same repository
\* (two live LockHolders of one name).
C1_OneSyncPerRepo ==
    \A r \in Repos : \A t, u \in Threads :
        (Syncing(t, r) /\ Syncing(u, r)) => t = u

\* Two syncs of different repositories in progress at once.
C1_Witness ==
    \E t, u \in Threads :
        /\ Syncing(t, "a") /\ Syncing(u, "b")
        /\ sync_locks["a"] = "true" /\ sync_locks["b"] = "true"

\* C7: a load_current of a repository, past lock_write, and the swap of
\* the same repository, past lock_write, never overlap.
C7_LoadCurrentExcludesSwap ==
    \A r \in Repos : \A t, u \in Threads :
        ~(t # u /\ InLoadCurrent(t, r) /\ InSwap(u, r))

\* What a step in which thread t calls sync_repo(r) next to a running
\* sync of r amounts to.
C8_WouldBlockStep ==
    \A t \in Threads : \A r \in Repos :
        ( /\ th[t].pc = "idle"
          /\ th'[t].pc # "idle"
          /\ th'[t].op = "sync" /\ th'[t].repo = r
          /\ \E u \in Threads \ {t} : Syncing(u, r) )
        => /\ th'[t].pc = "returned"
           /\ th'[t].result = "would-block"
           /\ th' = [th EXCEPT ![t] = th'[t]]
           /\ UNCHANGED <<pipeVars, dirVars, lockVarsButTh>>

C18_SyncingIffFlagSet ==
    \A r \in Repos :
       /\ is_repo_syncing(r) <=> \E t \in Threads : Syncing(t, r)
       /\ repo_status_current(r) = "syncing" <=> \E t \in Threads : Syncing(t, r)

----------------------------------------------------------------------------
(* Properties of the retry fetcher (specification SpecFetch).              *)

\* C20: a 404 answer of the wrapped fetcher ends the call: no further call
\* of the wrapped fetcher and no sleep follows it, it was the only call,
\* and the call returns that error.
C20_NotFoundIsTerminal ==
    \A i \in 1..rf.calls :
       rf.script[i] = 404
          => /\ rf.calls = 1
             /\ rf.sleeps = 0
             /\ rf.pc = "done" => (rf.result = "error" /\ rf.err = 404)

----------------------------------------------------------------------------
(* Properties of the scheduler and the control API (specification          *)
(* SpecSched).                                                             *)

\* C13: no failure of a sync the scheduler started stops the scheduler:
\* whatever way sync_repo fails, the scheduler thread goes on with its loop.
C13_SchedulerSurvives == sched.pc # "dead"

\* C14: when a sync of repository r started by the scheduler completes at
\* time now, with success or with an error, the status of r becomes
\* last_sync = now, next_sync = now + max_sync_delay and last_result =
\* "successful" or the error message, and no other status changes.
C14_CompletionStep ==
    (sched.pc = "syncing" /\ sched'.pc = "loop")
        => /\ sched'.result \in {"successful", "failed"}
           /\ sync_map'[sched.repo] =
                 [current |-> "waiting",
                  last_sync |-> now,
                  next_sync |-> now + config.max_sync_delay * 60,
                  last_result |-> sched'.result]
           /\ \A r \in Repos \ {sched.repo} : sync_map'[r] = sync_map[r]
           /\ DOMAIN sync_map' = Repos

C14_Completion == [][C14_CompletionStep]_vars

C14_Witness ==
    /\ sched.pc = "loop"
    /\ sync_map["a"].last_result = "failed" /\ sync_map["a"].last_sync = now
    /\ sync_map["b"].last_result = "successful" /\ sync_map["b"].last_sync < now

\* The step in which a request makes queue_sync act.
QueueStep == api.pc = "idle" /\ api'.pc = "queued"

\* Repository r has had a sync complete (at sync_map[r].last_sync).
Completed(r) == sync_map[r].last_result # "none"

\* C15, as stated: for every min_sync_delay and max_sync_delay, after a
\* sync of a repository completed at t0 every later queue_sync leaves
\* next_sync >= t0 + min_sync_delay, and the scheduler starts no sync of it
\* before that time.
C15_AsStatedStep ==
    /\ (QueueStep /\ api'.name \in Repos /\ Completed(api'.name))
          => sync_map'[api'.name].next_sync >=
                sync_map[api'.name].last_sync + config.min_sync_delay * 60
    /\ (sched.pc = "loop" /\ sched'.pc = "syncing" /\ Completed(sched'.repo))
          => now >= sync_map[sched'.repo].last_sync + config.min_sync_delay * 60

C15_AsStated == [][C15_AsStatedStep]_vars

\* C15, amended: after a sync of a repository completed at t0 every later
\* queue_sync leaves next_sync >= t0 + the smaller of min_sync_delay and
\* max_sync_delay, which is t0 + min_sync_delay in every configuration
\* with min_sync_delay <= max_sync_delay; the scheduler starts no sync of
\* the repository before that time.
C15_RateLimitStep ==
    LET limit == Min(config.min_sync_delay, config.max_sync_delay) * 60
    IN  /\ (QueueStep /\ api'.name \in Repos /\ Completed(api'.name))
              => sync_map'[api'.name].next_sync >=
                    sync_map[api'.name].last_sync + limit
        /\ (sched.pc = "loop" /\ sched'.pc = "syncing" /\ Completed(sched'.repo))
              => now >= sync_map[sched'.repo].last_sync + limit

C15_RateLimit == [][C15_RateLimitStep]_vars

C15_Witness ==
    /\ api.pc = "queued" /\ api.name = "a"
    /\ Completed("a")
    /\ config.min_sync_delay < config.max_sync_delay
    /\ sync_map["a"].next_sync = sync_map["a"].last_sync + config.min_sync_delay * 60
    /\ now > sync_map["a"].last_sync

\* C16: queue_sync(name) for a configured repository sets next_sync to
\* min(old next_sync, now + min_sync_delay - (now - last_sync)), never to a
\* later time, and changes nothing else of any status; for an unknown name
\* it changes nothing.  With max 30 min and min 10 min: a queue at t = 0
\* after a startup at 0 gives 10 min; after a completion at t = 60 s a
\* queue at t = 60 s gives 60 s + 10 min.
C16_Example ==
    LET s0 == initial_status(0, 30)
        s1 == completed_status(60, 30, s0, "success")
    IN  /\ s0.next_sync = 30 * 60
        /\ queued_next_sync(0, 10, s0) = 10 * 60
        /\ s1.next_sync = 60 + 30 * 60
        /\ queued_next_sync(60, 10, s1) = 60 + 10 * 60

C16_QueueStep ==
    QueueStep =>
        LET name == api'.name
        IN  IF name \in Repos
            THEN LET old == sync_map[name]
                     new == Min(old.next_sync,
                                now + config.min_sync_delay * 60 - (now - old.last_sync))
                 IN  /\ sync_map' = [sync_map EXCEPT ![name].next_sync = new]
                     /\ sync_map'[name].next_sync <= old.next_sync
            ELSE sync_map' = sync_map

C16_QueueSync == C16_Example /\ [][C16_QueueStep]_vars

C16_Witness ==
    /\ api.pc = "queued" /\ api.name = "b"
    /\ Completed("b")
    /\ sync_map["b"].next_sync < sync_map["b"].last_sync + config.max_sync_delay * 60

\* C17: every configured repository has a status from startup on, and the
\* keys of the status map are the configured repository names at all
\* times.  The status built at startup has next_sync = startup time +
\* max_sync_delay, last_sync = epoch 0, no last_result and current =
\* waiting: until a sync of the repository completes, last_sync and
\* last_result are those, and next_sync is that time or what queue_sync
\* makes of it.
C17_StatusKeys ==
    /\ DOMAIN sync_map = Repos
    /\ \A r \in Repos :
          LET at_startup == config.created + config.max_sync_delay * 60
          IN  /\ sync_map[r].current = "waiting"
              /\ ~Completed(r) =>
                    /\ sync_map[r].last_sync = 0
                    /\ sync_map[r].next_sync \in
                          {at_startup, Min(at_startup, config.min_sync_delay * 60)}

C17_Witness ==
    /\ DOMAIN sync_map = Repos
    /\ Completed("a") /\ ~Completed("b")
    /\ api.pc = "queued" /\ api.name = UnknownRepo

\* C19: GET /repository/{repo} and POST /repository/{repo}/sync answer
\* with the Status of the repository for every configured name and with
\* 404 for an unknown one; the Status of a POST carries the next_sync
\* queue_sync has set; a POST for an unknown name changes no status.
C19_ApiStep ==
    /\ (api.pc # "answered" /\ api'.pc = "answered") =>
          LET name == api'.name
              resp == api'.response
          IN  IF name \in Repos
              THEN /\ resp.code = 200
                   /\ resp.name = name
                   /\ resp.next_sync = sync_map'[name].next_sync * 1000
                   /\ resp.last_sync = sync_map'[name].last_sync * 1000
              ELSE resp.code = 404
    /\ (QueueStep /\ api'.name \notin Repos) => sync_map' = sync_map

C19_Api == [][C19_ApiStep]_vars

----------------------------------------------------------------------------
(* Further properties of the retry fetcher (specification SpecFetch).      *)

\* C21: for every max_retries, 0 included, the retry fetcher ends with a
\* result: it calls the wrapped fetcher at most max_retries times, returns
\* the first success without a further call, and when every attempt fails
\* returns the error of the last attempt after exactly max_retries calls.
C21_RetryTerminatesWithResult ==
    /\ rf.calls <= rf.retries
    /\ \A i \in 1..(rf.calls - 1) : rf.script[i] # 200
    /\ rf.pc = "done" =>
          /\ rf.result \in {"ok", "error"}
          /\ rf.result = "ok" => rf.script[rf.calls] = 200
          /\ rf.result = "error" =>
                /\ rf.calls = rf.retries
                /\ rf.err = rf.script[rf.calls]

----------------------------------------------------------------------------
(* Properties of repo_diff (specification SpecDiff).                       *)

DiffPairs ==
    {<<df.repo.collections[c],
       CurrentCollection(df.current_repo, df.repo.collections[c].target)>> :
        c \in 1..Len(df.repo.collections)}

\* The copy operations the items of `new` call for against `cur`, where
\* alike(x, y) says that x needs no copy over y.
CopiesFor(new, cur, alike(_, _), local_file) ==
    {[is_replace |-> x.path \in PathsOf(cur), path |-> x.path, hash |-> x.hash,
      size |-> x.size, local_file |-> local_file] :
        x \in {y \in Range(new) :
                  \/ y.path \notin PathsOf(cur)
                  \/ \E z \in Range(cur) : z.path = y.path /\ ~alike(y, z)}}

\* C25: the copy lists of repo_diff.  For each collection of the new
\* repository and the current collection of equal target (an empty one if
\* there is none), a package or index is copied with is_replace = false
\* when the current collection lacks its path, with is_replace = true when
\* the path is there but the item differs (any field of a package; path,
\* size or hash of an index) and not at all when it is equal; package
\* copies have no local_file, index copies have one.
C25_CopyLists ==
    df.pc = "done" =>
        /\ Range(df.plan.packages_copy) =
              UNION {CopiesFor(pr[1].packages, pr[2].packages,
                               LAMBDA x, y : x = y, FALSE) : pr \in DiffPairs}
        /\ Range(df.plan.index_copy) =
              UNION {CopiesFor(pr[1].indexes, pr[2].indexes,
                               LAMBDA x, y : /\ x.path = y.path
                                             /\ x.size = y.size
                                             /\ x.hash = y.hash, TRUE) :
                     pr \in DiffPairs}

C25_Witness ==
    /\ df.pc = "done"
    /\ \E x, y \in Range(df.plan.packages_copy) : x.is_replace /\ ~y.is_replace
    /\ \E x, y \in Range(df.plan.index_copy) : x.is_replace /\ ~y.is_replace
    /\ \E pr \in DiffPairs :
          \E x \in Range(pr[1].packages) : x \in Range(pr[2].packages)

\* C26: the delete lists of repo_diff hold exactly the paths of the current
\* packages, and of the current indexes, that the new collection of equal
\* target does not have; for one collection no path of the new collection
\* is deleted and no path is both copied and deleted.
C26_DeleteLists ==
    df.pc = "done" =>
        /\ Range(df.plan.packages_delete) =
              UNION {{[path |-> p] :
                         p \in PathsOf(pr[2].packages) \ PathsOf(pr[1].packages)} :
                     pr \in DiffPairs}
        /\ Range(df.plan.index_delete) =
              UNION {{[path |-> p] :
                         p \in PathsOf(pr[2].indexes) \ PathsOf(pr[1].indexes)} :
                     pr \in DiffPairs}
        /\ \A pr \in DiffPairs :
              /\ PathsOf(PackagesDelete(pr[1], pr[2])) \cap
                    (PathsOf(pr[1].packages)
                        \cup PathsOf(PackagesCopy(pr[1], pr[2]))) = {}
              /\ PathsOf(IndexesDelete(pr[1], pr[2])) \cap
                    (PathsOf(pr[1].indexes)
                        \cup PathsOf(IndexesCopy(pr[1], pr[2]))) = {}

C26_Witness ==
    /\ df.pc = "done"
    /\ df.plan.packages_delete # <<>>
    /\ df.plan.index_delete # <<>>
    /\ df.plan.packages_copy # <<>>

----------------------------------------------------------------------------
(* Further properties of one sync (specification Spec).                    *)

\* The packages and the indexes of the fetched repository.
FetchedPackages ==
    UNION {Range(st.collections[c].packages) : c \in 1..Len(st.collections)}

FetchedIndexes ==
    UNION {Range(st.collections[c].indexes) : c \in 1..Len(st.collections)}

LogEvents(op) == {log[i] : i \in {j \in 1..Len(log) : log[j].op = op}}

\* A sync that started without a saved snapshot directory and got past
\* load_current and repo_diff.
FirstSyncPlanned ==
    /\ ~st.saved0.exists
    /\ \/ st.pc \in LatePhases \cup {"replace2", "replace3"}
       \/ st.pc = "done" /\ st.phase \in LatePhases

PlannedCopies == Range(st.plan.packages_copy) \cup Range(st.plan.index_copy)

C28_AnchorUploadedLast ==
    \A i \in Uploads("index") :
        log[i].path[2] = "Release" =>
            \A o \in Range(st.plan.index_copy) :
                (o.path[1] = log[i].path[1] /\ o.path[2] # "Release")
                    => \E j \in 1..(i - 1) :
                          log[j].op = "upload" /\ log[j].path = o.path

----------------------------------------------------------------------------
(* Properties of the metadata fetch (specification SpecIndex).             *)

IxAllEmpty(plan) ==
    /\ plan.packages_copy = <<>>
    /\ plan.packages_delete = <<>>
    /\ plan.index_copy = <<>>
    /\ plan.index_delete = <<>>

\* C23: after a successful sync that replaced the saved snapshot, the diff
\* of the repository that sync fetched against the saved snapshot, as
\* load_current reads it back, has four empty lists.
C23_ResyncDiffIsEmpty ==
    (ix.pc = "idle" /\ ix.result = "ok" /\ ix.swapped)
        => /\ ix_load_current.status = "ok"
           /\ IxAllEmpty(repo_diff(ix.repo, ix_load_current.repo))

\* C29: in every repository fetch_repository returns, the top-level index
\* is the first element of collection.indexes.
C29_AnchorAtPositionZero ==
    ix.pc = "fetched" =>
        \A c \in 1..Len(ix.repo.collections) :
            ix.repo.collections[c].indexes[1].path[2] = Anchor(ix.kind)

\* C30: in the fetch of a sync, when the top-level index is not served
\* (404 or another failure) or the fetch of any index fails otherwise than
\* with 404, the sync ends with an error and the destination untouched;
\* else, when the listed index is served, the fetch succeeds and the
\* repository has the top-level index, the listed index and the optional
\* indexes that are served.
C30_FetchErrorsStep ==
    (ix.pc = "idle" /\ ix'.syncs = ix.syncs + 1) =>
        LET kind  == ix.kind
            fatal == \/ ix.serve[Anchor(kind)] # 200
                     \/ \E f \in IxFiles(kind) : ix.serve[f] \notin {200, 404}
        IN  /\ fatal => /\ ix'.pc = "idle"
                        /\ ix'.result \in {"not-found", "other"}
                        /\ ~ix'.mutated
                        /\ ix'.saved = ix.saved
            /\ (~fatal /\ ix.serve[Listed(kind)] = 200) =>
                  /\ ix'.pc = "fetched"
                  /\ PathsOf(ix'.repo.collections[1].indexes) =
                        {<<IxTarget(kind), f>> :
                            f \in {g \in IxFiles(kind) : ix.serve[g] = 200}}

C30_FetchErrors == [][C30_FetchErrorsStep]_vars

----------------------------------------------------------------------------
(* Further properties of the scheduler (specification SpecSched).          *)

\* The smallest next_sync of the status map and the first repository, in
\* name order, that has it.
EarliestNextSync ==
    CHOOSE t \in {sync_map[r].next_sync : r \in Repos} :
        \A r \in Repos : t <= sync_map[r].next_sync

FirstEarliest ==
    RepoOrder[CHOOSE i \in 1..Len(RepoOrder) :
                 /\ sync_map[RepoOrder[i]].next_sync = EarliestNextSync
                 /\ \A j \in 1..(i - 1) :
                       sync_map[RepoOrder[j]].next_sync # EarliestNextSync]

\* C31: an iteration of the scheduler takes the repository with the
\* smallest next_sync, the first in name order on a tie; it starts the
\* sync of that repository when its next_sync is before the current time
\* and else sleeps min(next_sync - now, 10 s) and starts nothing; every
\* sync the scheduler starts is of that repository, not before its
\* next_sync.
C31_SchedulerStep ==
    /\ sched.pc = "loop" =>
          IF EarliestNextSync < now
          THEN scheduler_iteration = [sync |-> TRUE, name |-> FirstEarliest,
                                      sleep |-> 0]
          ELSE /\ ~scheduler_iteration.sync
               /\ scheduler_iteration.sleep =
                     (IF EarliestNextSync - now < 10
                      THEN EarliestNextSync - now ELSE 10)
               /\ sched'.pc # "syncing"
    /\ (sched.pc = "loop" /\ sched'.pc = "syncing") =>
          /\ sched'.repo = FirstEarliest
          /\ sync_map[sched'.repo].next_sync <= now
          /\ \A r \in Repos :
                sync_map[sched'.repo].next_sync <= sync_map[r].next_sync

----------------------------------------------------------------------------
(* Further properties of the locks (specification SpecLocks).              *)

\* Thread t owns the LockHolder of repository r.
HoldsSyncLock(t, r) ==
    /\ th[t].op = "sync" /\ th[t].repo = r
    /\ th[t].pc \notin {"idle", "returned"}

\* C32: the sync flag of a repository is set exactly while one thread is
\* inside the sync_repo call that set it; it is cleared only by the step
\* in which that thread leaves sync_repo, whether the sync went through,
\* failed or was refused for another thread meanwhile; and whenever no
\* thread is inside a sync of the repository, lock_sync succeeds.
C32_SyncLockStep ==
    \A r \in Repos :
        /\ sync_locks[r] = "true" <=> \E t \in Threads : HoldsSyncLock(t, r)
        /\ (\A t \in Threads : ~HoldsSyncLock(t, r)) => try_lock_some(r)
        /\ (sync_locks[r] = "true" /\ sync_locks'[r] # "true") =>
              \E t \in Threads :
                  /\ HoldsSyncLock(t, r)
                  /\ th[t].pc = "drop"
                  /\ th'[t].pc = "idle"
                  /\ sync_locks'[r] = "false"

----------------------------------------------------------------------------
(* Properties of the swap (specification SpecSwap).                        *)

\* C33: a sync that reaches the swap and meets no failure of the file
\* system completes replace(), whatever an earlier replace() that failed
\* has left of the saved directory, its _tmp sibling and the live
\* directory; its snapshot is then the saved one.
C33_SwapRetryable ==
    (st.pc = "done" /\ st.phase = "swap" /\ ~st.fault)
        => /\ st.result = "ok"
           /\ target[TheRepo] = SnapshotDir(up)

----------------------------------------------------------------------------
(* Properties of the write locks (specification SpecWrite).                *)

\* Thread t is in lock_write and cannot go on before thread h, which holds
\* the write lock of another repository, lets go of it: t waits for the
\* mutex of the map, which thread u keeps while it waits for h's mutex.
WaitsThrough(t, u, h) ==
    /\ th[t].pc = "lc_map"
    /\ wl_map = u
    /\ th[u].pc = "lc_inner"
    /\ th[h].pc = "lc_held"
    /\ th[h].repo = th[u].repo
    /\ wl_locked[th[u].repo]
    /\ th[t].repo # th[h].repo

\* C34: a thread calling lock_write on one repository never waits, directly
\* or through a third thread, for the holder of the write lock of another
\* repository.
C34_WriteLocksIndependent ==
    \A t \in Writers, u \in Writers, h \in Writers : ~WaitsThrough(t, u, h)

----------------------------------------------------------------------------
(* Deadlock (specification SpecLocks).                                     *)

\* Thread t has a write guard that it has not dropped yet.
HoldsWriteGuard(t) ==
    th[t].pc \in {"lc_held", "load_held", "replace1", "replace2", "replace3",
                  "swap_end"}

\* Thread t is inside Lock::lock, holding the mutex of the map and blocked
\* on the mutex of its repository.
BlockedOnWriteMutex(t) ==
    /\ th[t].pc \in {"lc_inner", "load_inner", "swap_inner"}
    /\ wl_map = t
    /\ wl_locked[th[t].repo]

\* C35: no interleaving of syncs and API handlers deadlocks: a thread
\* blocked on a per-repository write mutex is waiting for some thread that
\* still has a write guard to drop.  (While no thread has one, no mutex is
\* ever unlocked, and the blocked thread keeps the mutex of the map, so
\* every later lock_write blocks as well.)
C35_NoDeadlock ==
    \A t \in Threads :
        BlockedOnWriteMutex(t) => \E h \in Threads : HoldsWriteGuard(h)

----------------------------------------------------------------------------
(* Requests during a sync (specification SpecSched).                       *)

\* C36: a queue_sync(name) that ran while the scheduler was inside the sync
\* of name is not lost: when that sync completes, next_sync(name) is no
\* later than last_sync(name) + min_sync_delay.
C36_QueuedInFlightStep ==
    (/\ sched.pc = "syncing" /\ sched'.pc = "loop"
     /\ api.pc = "queued" /\ api.in_flight /\ api.name = sched.repo)
        => sync_map'[sched.repo].next_sync <=
              sync_map'[sched.repo].last_sync + delay_secs(config.min_sync_delay)

C36_QueuedInFlightKept == [][C36_QueuedInFlightStep]_vars

----------------------------------------------------------------------------
(* The saved snapshot and the signatures (specification SpecIndex).        *)

\* The files of the indexes of a repository.
IxIndexFiles(repo) ==
    UNION {{repo.collections[c].indexes[x].path[2] :
               x \in DOMAIN repo.collections[c].indexes} :
           c \in DOMAIN repo.collections}

\* C37: after a successful swap the saved directory holds exactly the
\* metadata files the sync fetched, and load_current returns no index that
\* the sync did not fetch.
C37_SavedIsWhatWasFetched ==
    (ix.pc = "idle" /\ ix.result = "ok" /\ ix.swapped)
        => /\ ix.saved.dir = IxIndexFiles(ix.repo)
           /\ IxIndexFiles(ix_load_current.repo) \subseteq IxIndexFiles(ix.repo)

\* Some index of every collection carries a signature.
IxSigned(repo) ==
    \A c \in DOMAIN repo.collections :
        \E x \in DOMAIN repo.collections[c].indexes :
            repo.collections[c].indexes[x].signature # "None"

\* C38: with a public key configured, a sync changes the destination or
\* the saved snapshot only when the repository it fetched is signed: a
\* repository none of whose indexes carries a signature fails the check.
C38_UnsignedNeverSynced ==
    (ix.key /\ ix.pc = "idle" /\ (ix.mutated \/ ix.swapped)) => IxSigned(ix.repo)

----------------------------------------------------------------------------
(* The indexes at the destination (specification Spec).                    *)

\* C39: after a successful sync that met no failure, the destination's
\* copy of every index of the fetched repository has the content of the
\* file upstream served to that sync, the top-level Release included.
C39_IndexesMatchUpstream ==
    (st.pc = "done" /\ st.result = "ok" /\ ~st.fault) =>
        \A c \in DOMAIN st.collections :
            \A x \in DOMAIN st.collections[c].indexes :
                LET path == st.collections[c].indexes[x].path
                IN  /\ dest[path].present
                    /\ dest[path].sha = SnapshotDir(up).files[path].sha

----------------------------------------------------------------------------
(* Liveness of the scheduler (specification SpecSchedFair).                *)

\* C40: every repository whose next_sync has passed is eventually the one
\* the scheduler calls sync_repo for, whatever the other repositories'
\* syncs and the queue_sync requests do.
C40_OverdueEventuallySynced ==
    \A r \in Repos :
        (sync_map[r].next_sync < now) ~> (sched.pc = "syncing" /\ sched.repo = r)

====
